---- MODULE Spec2Model ----
(***************************************************************************)
(* Model of src/api_manager.py: AdaptiveRateLimiter, CircuitBreaker,       *)
(* LoadBalancer, RequestQueue and the response cache of APIManager.        *)
(*                                                                         *)
(* Numbers.  Python floats are modelled in fixed point:                    *)
(*   - rates are in thousandths of a request per second (10.0 -> 10000);   *)
(*     a product with 1.05 or 0.8 is truncated to a thousandth;            *)
(*   - health scores are in tenths (1.0 -> 10, 0.5 -> 5, 0.1 -> 1), without *)
(*     the rounding error of the binary floats;                            *)
(*   - time.time() is the integer variable now, which starts at 1 and is   *)
(*     advanced by Tick; durations are in the same unit.                   *)
(* Python's None is NoTime for a timestamp, NoEndpoint for an endpoint,    *)
(* NoRequest for a request and NoResult for a response body.               *)
(***************************************************************************)
EXTENDS Integers, Sequences, FiniteSets, TLC

VARIABLES
    now,              \* time.time()
    rate_limiter,     \* the AdaptiveRateLimiter object
    circuit_breaker,  \* the CircuitBreaker object
    endpoints,        \* LoadBalancer.endpoints, a list of APIEndpoint
    request_queue,    \* the RequestQueue object
    consumers,        \* the threads inside RequestQueue.get_request
    cache,            \* APIManager.cache      (dict, in insertion order)
    cache_times,      \* APIManager.cache_times (dict, in insertion order)
    cache_ttl,        \* APIManager.cache_ttl
    last_call,        \* the last completed call: operation, arguments, result
    consec_failures,  \* observer: record_failure calls since the last record_success
    trial_successes,  \* observer: record_success calls since HALF_OPEN was entered
    taken,            \* observer: the requests returned by get_request, in order
    queue_lock,       \* the owner of RequestQueue.lock (0: nobody)
    processing,       \* APIManager.processing
    session,          \* APIManager.session: "None", "open" or "closed"
    manager,          \* where the caller of start() and stop() is
    running,          \* the worker task the event loop is running (0: none)
    workers,          \* APIManager.worker_tasks: each task's position and locals
    stats,            \* APIManager.stats
    requests,         \* the APIRequest objects created so far, by id
    last_send         \* observer: when the last transfer was started

vars == <<now, rate_limiter, circuit_breaker, endpoints, request_queue, consumers,
          cache, cache_times, cache_ttl, last_call,
          consec_failures, trial_successes, taken, queue_lock,
          processing, session, manager, running, workers, stats, requests,
          last_send>>

rlVars    == <<rate_limiter>>
cbVars    == <<circuit_breaker, consec_failures, trial_successes>>
lbVars    == <<endpoints>>
queueVars == <<request_queue, consumers, taken, queue_lock>>
cacheVars == <<cache, cache_times, cache_ttl>>
mgrVars   == <<processing, session, manager, running, workers, stats, requests,
               last_send>>

----------------------------------------------------------------------------
(* Bounds of the model *)

MaxTime == 4            \* the rate limiter, breaker and cache are explored up to this time
ShortTime == 2          \* the load balancer and the queue are explored up to this time
MaxOutcomes == 4        \* outcomes recorded to the rate limiter in one run

(* Python values *)
NoTime == 0 - 1         \* None where a timestamp is expected
Min(a, b) == IF a <= b THEN a ELSE b
Max(a, b) == IF a >= b THEN a ELSE b

(* bool(t) of an optional timestamp: None and 0.0 are falsy *)
Truthy(t) == t # NoTime /\ t # 0

(* deque(maxlen=n).append(x) *)
DequeAppend(dq, x, maxlen) ==
    IF Len(dq) >= maxlen THEN Append(Tail(dq), x) ELSE Append(dq, x)

(* time passes, up to the horizon of the specification *)
Tick(horizon) ==
    /\ now < horizon
    /\ now' = now + 1
    /\ last_call' = [op |-> "tick"]
    /\ UNCHANGED <<rlVars, cbVars, lbVars, queueVars, cacheVars, mgrVars>>

----------------------------------------------------------------------------
(* AdaptiveRateLimiter *)

RateScale == 1000            \* thousandths of a request per second
RequestTimesMaxLen == 3      \* deque(maxlen=100), scaled down
RequestTimesWindow == 2      \* "now - 60", scaled down

(* Constructor arguments explored; the defaults are 10.0, 1.0 and 100.0 *)
InitialRates == {1000, 10000, 100000}
MinRates == {1000, 10000}
MaxRates == {10500, 100000}

NewRateLimiter(initial_rate, min_rate, max_rate) ==
    [current_rate |-> initial_rate,
     initial_rate |-> initial_rate,
     min_rate |-> min_rate,
     max_rate |-> max_rate,
     last_request_time |-> 0,
     request_times |-> <<>>,
     success_count |-> 0,
     error_count |-> 0]

(* while self.request_times and self.request_times[0] < cutoff_time: popleft() *)
RECURSIVE DropOld(_, _)
DropOld(times, cutoff) ==
    IF times # <<>> /\ Head(times) < cutoff
    THEN DropOld(Tail(times), cutoff)
    ELSE times

(* min(self.current_rate * 1.05, self.max_rate) *)
RateUpUnclamped(rate, max_rate) == (rate * 105) \div 100
RateUp(rate, max_rate) == Min((rate * 105) \div 100, max_rate)

(* max(self.current_rate * 0.8, self.min_rate) *)
RateDownUnfloored(rate, min_rate) == (rate * 80) \div 100
RateDown(rate, min_rate) == Max((rate * 80) \div 100, min_rate)

record_request(rl, success, t) ==
    LET appended == DequeAppend(rl.request_times, t, RequestTimesMaxLen)
    IN [rl EXCEPT
          !.last_request_time = t,
          !.request_times = DropOld(appended, t - RequestTimesWindow),
          !.success_count = IF success THEN @ + 1 ELSE @,
          !.error_count = IF success THEN @ ELSE @ + 1,
          !.current_rate = IF success THEN RateUp(@, rl.max_rate)
                                      ELSE RateDown(@, rl.min_rate)]

(* 1.0 / current_rate, in milliseconds *)
RequiredInterval(rl) == (1000 * RateScale) \div rl.current_rate

(* time_since_last >= 1.0 / current_rate *)
rl_can_make_request(rl, t) ==
    (t - rl.last_request_time) * 1000 >= RequiredInterval(rl)

(* max(0.0, required_interval - time_since_last), in milliseconds *)
get_wait_time(rl, t) ==
    Max(0, RequiredInterval(rl) - (t - rl.last_request_time) * 1000)

RecordRequest(success) ==
    /\ rate_limiter.success_count + rate_limiter.error_count < MaxOutcomes
    /\ rate_limiter' = record_request(rate_limiter, success, now)
    /\ last_call' = [op |-> "record_request", success |-> success]
    /\ UNCHANGED <<now, cbVars, lbVars, queueVars, cacheVars, mgrVars>>

(* A variant of rl_read in which the reader stamps the time of its call. *)
rl_read_Stamps(rl, t) == [rl EXCEPT !.last_request_time = t]

(* The limiter when can_make_request or get_wait_time leaves its
   `with self.lock` block: both only read fields and return a value. *)
rl_read(rl, t) == rl

RateCanMakeRequest ==
    /\ last_call' = [op |-> "rl_can_make_request",
                     ret |-> rl_can_make_request(rate_limiter, now)]
    /\ rate_limiter' = rl_read(rate_limiter, now)
    /\ UNCHANGED <<now, cbVars, lbVars, queueVars, cacheVars, mgrVars>>

GetWaitTime ==
    /\ last_call' = [op |-> "get_wait_time",
                     ret |-> get_wait_time(rate_limiter, now)]
    /\ rate_limiter' = rl_read(rate_limiter, now)
    /\ UNCHANGED <<now, cbVars, lbVars, queueVars, cacheVars, mgrVars>>

----------------------------------------------------------------------------
(* CircuitBreaker *)

MaxThreshold == 2       \* failure_threshold and success_threshold range over 1..MaxThreshold
MaxRecovery == 2        \* recovery_timeout ranges over 0..MaxRecovery
MaxFailures == 4        \* failure_count is capped in the guard of RecordFailure

NewCircuitBreaker(failure_threshold, recovery_timeout, success_threshold) ==
    [failure_threshold |-> failure_threshold,
     recovery_timeout |-> recovery_timeout,
     success_threshold |-> success_threshold,
     state |-> "CLOSED",
     failure_count |-> 0,
     success_count |-> 0,
     last_failure_time |-> NoTime]

(* a variant of RecoveryElapsed for which no recovery timeout ever elapses *)
RecoveryElapsedNever(cb, t) == FALSE

(* the OPEN branch's condition of can_make_request *)
RecoveryElapsed(cb, t) ==
    Truthy(cb.last_failure_time) /\ t - cb.last_failure_time > cb.recovery_timeout

(* can_make_request: the breaker after the call, and the value returned *)
cb_can_make_request_ResetsNothing(cb, t) ==
    IF cb.state = "OPEN" /\ RecoveryElapsed(cb, t)
    THEN [cb EXCEPT !.state = "HALF_OPEN"]
    ELSE cb

cb_can_make_request(cb, t) ==
    IF cb.state = "OPEN" /\ RecoveryElapsed(cb, t)
    THEN [cb EXCEPT !.state = "HALF_OPEN", !.success_count = 0]
    ELSE cb

cb_can_make_request_ret(cb, t) ==
    CASE cb.state = "CLOSED" -> TRUE
      [] cb.state = "OPEN" -> RecoveryElapsed(cb, t)
      [] cb.state = "HALF_OPEN" -> TRUE
      [] OTHER -> FALSE

record_success_KeepsFailures(cb) ==
    IF cb.state = "HALF_OPEN"
    THEN IF cb.success_count + 1 >= cb.success_threshold
         THEN [cb EXCEPT !.state = "CLOSED", !.success_count = 0]
         ELSE [cb EXCEPT !.success_count = @ + 1]
    ELSE cb

record_success_OneTooMany(cb) ==
    IF cb.state = "HALF_OPEN"
    THEN IF cb.success_count + 1 > cb.success_threshold
         THEN [cb EXCEPT !.failure_count = 0, !.state = "CLOSED", !.success_count = 0]
         ELSE [cb EXCEPT !.failure_count = 0, !.success_count = @ + 1]
    ELSE [cb EXCEPT !.failure_count = 0]

record_success(cb) ==
    IF cb.state = "HALF_OPEN"
    THEN IF cb.success_count + 1 >= cb.success_threshold
         THEN [cb EXCEPT !.failure_count = 0, !.state = "CLOSED", !.success_count = 0]
         ELSE [cb EXCEPT !.failure_count = 0, !.success_count = @ + 1]
    ELSE [cb EXCEPT !.failure_count = 0]

record_failure_OneTooMany(cb, t) ==
    [cb EXCEPT
       !.failure_count = @ + 1,
       !.last_failure_time = t,
       !.state = IF cb.state = "CLOSED" /\ cb.failure_count + 1 > cb.failure_threshold
                 THEN "OPEN"
                 ELSE IF cb.state = "HALF_OPEN" THEN "OPEN" ELSE @]

(* a variant of record_failure that keeps the time at which the breaker opened *)
record_failure_KeepsOpeningTime(cb, t) ==
    [cb EXCEPT
       !.failure_count = @ + 1,
       !.last_failure_time = IF cb.state = "OPEN" THEN @ ELSE t,
       !.state = IF cb.state = "CLOSED" /\ cb.failure_count + 1 >= cb.failure_threshold
                 THEN "OPEN"
                 ELSE IF cb.state = "HALF_OPEN" THEN "OPEN" ELSE @]

record_failure(cb, t) ==
    [cb EXCEPT
       !.failure_count = @ + 1,
       !.last_failure_time = t,
       !.state = IF cb.state = "CLOSED" /\ cb.failure_count + 1 >= cb.failure_threshold
                 THEN "OPEN"
                 ELSE IF cb.state = "HALF_OPEN" THEN "OPEN" ELSE @]

CanMakeRequest ==
    /\ circuit_breaker' = cb_can_make_request(circuit_breaker, now)
    /\ trial_successes' = IF circuit_breaker'.state = "HALF_OPEN"
                             /\ circuit_breaker.state # "HALF_OPEN"
                          THEN 0 ELSE trial_successes
    /\ last_call' = [op |-> "can_make_request",
                     ret |-> cb_can_make_request_ret(circuit_breaker, now)]
    /\ UNCHANGED <<now, consec_failures, rlVars, lbVars, queueVars, cacheVars, mgrVars>>

RecordSuccess ==
    /\ circuit_breaker' = record_success(circuit_breaker)
    /\ consec_failures' = 0
    /\ trial_successes' = IF circuit_breaker.state = "HALF_OPEN"
                          THEN trial_successes + 1 ELSE trial_successes
    /\ last_call' = [op |-> "record_success"]
    /\ UNCHANGED <<now, rlVars, lbVars, queueVars, cacheVars, mgrVars>>

RecordFailure ==
    /\ circuit_breaker.failure_count < MaxFailures
    /\ circuit_breaker' = record_failure(circuit_breaker, now)
    /\ consec_failures' = consec_failures + 1
    /\ last_call' = [op |-> "record_failure"]
    /\ UNCHANGED <<now, trial_successes, rlVars, lbVars, queueVars, cacheVars, mgrVars>>

----------------------------------------------------------------------------
(* APIEndpoint and LoadBalancer *)

MaxEndpoints == 2          \* LoadBalancer is built with 0..MaxEndpoints urls
MaxResponses == 7          \* responses recorded to the load balancer in one run
ResponseTimes == {0, 2}    \* response_time values recorded
ResponseTimesMaxLen == 2   \* deque(maxlen=100), scaled down
WeightScale == 2           \* a selection weight is kept in halves

HealthMax == 10            \* health_score 1.0
HealthThreshold == 5       \* health_score 0.5
HealthUp == 1              \* health_score + 0.1
HealthDown == 2            \* health_score - 0.2
NoEndpoint == 0            \* get_endpoint returning None; endpoints are numbered from 1

NewEndpoint ==
    [weight |-> 1,
     health_score |-> HealthMax,
     last_error |-> NoTime,
     error_count |-> 0,
     success_count |-> 0,
     response_times |-> <<>>]

NewLoadBalancer(n) == [i \in 1..n |-> NewEndpoint]

RECURSIVE SeqSum(_)
SeqSum(s) == IF s = <<>> THEN 0 ELSE Head(s) + SeqSum(Tail(s))

(* avg_response_time, as the pair sum, count: statistics.mean of the deque, 0.0 when empty *)
ResponseSum(ep) == SeqSum(ep.response_times)
ResponseCount(ep) == Len(ep.response_times)

(* weight = health_score * weight, divided by avg_response_time when that is > 0 *)
SelectionWeight(ep) ==
    IF ResponseSum(ep) > 0
    THEN (ep.health_score * ep.weight * WeightScale * ResponseCount(ep)) \div ResponseSum(ep)
    ELSE ep.health_score * ep.weight * WeightScale

(* [ep for ep in self.endpoints if ep.health_score > 0.5], as the list of their numbers *)
HealthyOf(eps) == SelectSeq([i \in 1..Len(eps) |-> i],
                            LAMBDA i : eps[i].health_score > HealthThreshold)

(* self.endpoints[:1], without the sort *)
BestOfUnsorted(eps) == <<1>>

(* sorted(self.endpoints, key=health_score, reverse=True)[:1]: the sort is stable,
   so the first endpoint with the highest score *)
BestOf(eps) ==
    LET best == CHOOSE i \in 1..Len(eps) :
                   /\ \A j \in 1..Len(eps) : eps[j].health_score <= eps[i].health_score
                   /\ \A j \in 1..(i - 1) : eps[j].health_score < eps[i].health_score
    IN <<best>>

(* healthy_endpoints: the healthy ones, or else the best one *)
CandidatesUnfiltered(eps) == [i \in 1..Len(eps) |-> i]

Candidates(eps) ==
    LET healthy_endpoints == HealthyOf(eps)
    IN IF healthy_endpoints # <<>> THEN healthy_endpoints ELSE BestOf(eps)

WeightsOf(eps, cands) == [k \in 1..Len(cands) |-> SelectionWeight(eps[cands[k]])]

(* the walk over the cumulative weights: the first k with r <= cumulative *)
RECURSIVE Walk(_, _, _, _)
Walk(weights, r, k, cumulative) ==
    IF k > Len(weights) THEN Len(weights)
    ELSE IF r <= cumulative + weights[k] THEN k
    ELSE Walk(weights, r, k + 1, cumulative + weights[k])

(* get_endpoint: the endpoints it can return, one for each draw r of
   random.uniform(0, total_weight), taken to the precision of a weight *)
get_endpoint(eps) ==
    IF Len(eps) = 0 THEN {NoEndpoint}
    ELSE LET cands == Candidates(eps)
             weights == WeightsOf(eps, cands)
             total_weight == SeqSum(weights)
         IN {cands[Walk(weights, r, 1, 0)] : r \in 0..total_weight}

(* max(0.0, endpoint.health_score - 0.2) *)
HealthLoweredUnclamped(score) == score - HealthDown
HealthLowered(score) == Max(0, score - HealthDown)

record_response(eps, e, success, response_time, t) ==
    [eps EXCEPT ![e] =
        [@ EXCEPT
           !.response_times = DequeAppend(@, response_time, ResponseTimesMaxLen),
           !.success_count = IF success THEN @ + 1 ELSE @,
           !.error_count = IF success THEN @ ELSE @ + 1,
           !.last_error = IF success THEN @ ELSE t,
           !.health_score = IF success THEN Min(HealthMax, @ + HealthUp)
                                       ELSE HealthLowered(@)]]

ResponsesRecorded ==
    SeqSum([i \in 1..Len(endpoints) |-> endpoints[i].success_count + endpoints[i].error_count])

GetEndpoint ==
    /\ \E ret \in get_endpoint(endpoints) :
          last_call' = [op |-> "get_endpoint", ret |-> ret]
    /\ UNCHANGED <<now, rlVars, cbVars, lbVars, queueVars, cacheVars, mgrVars>>

RecordResponse(e, success, response_time) ==
    /\ ResponsesRecorded < MaxResponses
    /\ endpoints' = record_response(endpoints, e, success, response_time, now)
    /\ last_call' = [op |-> "record_response", endpoint |-> e, success |-> success]
    /\ UNCHANGED <<now, rlVars, cbVars, queueVars, cacheVars, mgrVars>>

----------------------------------------------------------------------------
(* The response cache of APIManager: cache and cache_times are Python dicts,
   modelled as the sequence of their items in insertion order *)

MaxKeys == 3               \* cache keys (request fingerprints) range over 1..MaxKeys
MaxTtl == 2                \* cache_ttl ranges over 1..MaxTtl (the default is 3600)
CacheMaxItems == 2         \* "len(self.cache) > 10000", scaled down
CachePurgeCount == 1       \* "sorted_keys[:1000]", scaled down

NoResult == "None"         \* a lookup returning None
Results == {"{}", "data"}  \* response bodies stored: an empty and a non-empty dict

DictHas(d, k) == \E i \in 1..Len(d) : d[i].key = k
DictGet(d, k) == d[CHOOSE i \in 1..Len(d) : d[i].key = k].val
DictGetOr(d, k, default) == IF DictHas(d, k) THEN DictGet(d, k) ELSE default
DictSet(d, k, v) ==
    IF DictHas(d, k)
    THEN [i \in 1..Len(d) |-> IF d[i].key = k THEN [key |-> k, val |-> v] ELSE d[i]]
    ELSE Append(d, [key |-> k, val |-> v])
DictDel(d, k) == SelectSeq(d, LAMBDA e : e.key # k)

(* sorted(d.keys(), key=lambda k: d[k]): a stable sort of the items by value *)
RECURSIVE InsertSorted(_, _)
InsertSorted(sorted, e) ==
    IF sorted = <<>> THEN <<e>>
    ELSE IF Head(sorted).val <= e.val
         THEN <<Head(sorted)>> \o InsertSorted(Tail(sorted), e)
         ELSE <<e>> \o sorted

(* a variant of SortedByValue: the items in insertion order *)
Unsorted(d) == d

RECURSIVE SortedByValue(_)
SortedByValue(d) ==
    IF d = <<>> THEN <<>>
    ELSE InsertSorted(SortedByValue(SubSeq(d, 1, Len(d) - 1)), d[Len(d)])

RECURSIVE DelKeys(_, _)
DelKeys(d, items) ==
    IF items = <<>> THEN d ELSE DelKeys(DictDel(d, Head(items).key), Tail(items))

(* the live test of _get_from_cache *)
CacheLive(c, ct, ttl, key, t) == t - DictGetOr(ct, key, 0) < ttl

(* _get_from_cache: the dicts after the call and the value returned *)
get_from_cache_KeepsTime(c, ct, ttl, key, t) ==
    IF DictHas(c, key) /\ ~CacheLive(c, ct, ttl, key, t)
    THEN [cache |-> DictDel(c, key), cache_times |-> ct, ret |-> NoResult]
    ELSE [cache |-> c, cache_times |-> ct,
          ret |-> IF DictHas(c, key) THEN DictGet(c, key) ELSE NoResult]

get_from_cache(c, ct, ttl, key, t) ==
    IF DictHas(c, key)
    THEN IF CacheLive(c, ct, ttl, key, t)
         THEN [cache |-> c, cache_times |-> ct, ret |-> DictGet(c, key)]
         ELSE [cache |-> DictDel(c, key), cache_times |-> DictDel(ct, key),
               ret |-> NoResult]
    ELSE [cache |-> c, cache_times |-> ct, ret |-> NoResult]

(* _cache_result: the dicts after the call *)
cache_result(c, ct, key, result, t) ==
    LET c1 == DictSet(c, key, result)
        ct1 == DictSet(ct, key, t)
        keys_to_remove == SubSeq(SortedByValue(ct1), 1, Min(CachePurgeCount, Len(ct1)))
    IN IF Len(c1) > CacheMaxItems
       THEN [cache |-> DelKeys(c1, keys_to_remove),
             cache_times |-> DelKeys(ct1, keys_to_remove)]
       ELSE [cache |-> c1, cache_times |-> ct1]

GetFromCache(key) ==
    LET out == get_from_cache(cache, cache_times, cache_ttl, key, now)
    IN /\ cache' = out.cache
       /\ cache_times' = out.cache_times
       /\ last_call' = [op |-> "_get_from_cache", key |-> key, ret |-> out.ret,
                        branch |-> IF ~DictHas(cache, key) THEN "absent"
                                   ELSE IF CacheLive(cache, cache_times, cache_ttl, key, now)
                                        THEN "live"
                                        ELSE "expired"]
       /\ UNCHANGED <<now, cache_ttl, rlVars, cbVars, lbVars, queueVars, mgrVars>>

CacheResult(key, result) ==
    LET out == cache_result(cache, cache_times, key, result, now)
    IN /\ cache' = out.cache
       /\ cache_times' = out.cache_times
       /\ last_call' = [op |-> "_cache_result", key |-> key, result |-> result,
                        purged |-> Len(DictSet(cache, key, result)) - Len(out.cache)]
       /\ UNCHANGED <<now, cache_ttl, rlVars, cbVars, lbVars, queueVars, mgrVars>>

----------------------------------------------------------------------------
(* RequestQueue *)

MaxQueue == 2              \* max_size ranges over 0..MaxQueue (the default is 10000)
MaxItems == 3              \* requests accepted by add_request in one run
Consumers == {1, 2}        \* threads calling get_request
Timeouts == {0, 1}         \* get_request's timeout: a poll, and the worker's 1.0

LOW == 1
NORMAL == 2
HIGH == 3
URGENT == 4
Priorities == {LOW, NORMAL, HIGH, URGENT}

(* the order in which get_request visits the lanes *)
PriorityOrderReversed == <<LOW, NORMAL, HIGH, URGENT>>
PriorityOrder == <<URGENT, HIGH, NORMAL, LOW>>

NoRequest == [id |-> 0, priority |-> 0]     \* get_request returning None

NewRequestQueue(max_size) ==
    [queues |-> [p \in Priorities |-> <<>>],
     max_size |-> max_size,
     total_size |-> 0]

(* add_request under the lock: the queue after the call, and the value returned *)
QueueFullOverBy1(q) == q.total_size > q.max_size
QueueFull(q) == q.total_size >= q.max_size

(* a variant of add_request that appends the item and leaves total_size alone *)
add_request_Uncounted(q, request) ==
    IF QueueFull(q) THEN q
    ELSE [q EXCEPT !.queues[request.priority] = Append(@, request)]

add_request(q, request) ==
    IF QueueFull(q) THEN q
    ELSE [q EXCEPT !.queues[request.priority] = Append(@, request),
                   !.total_size = @ + 1]

add_request_ret(q, request) == ~QueueFull(q)

(* the for loop of get_request: the first non-empty lane in PriorityOrder, 0 if none *)
RECURSIVE FirstNonEmpty(_, _)
FirstNonEmpty(q, k) ==
    IF k > Len(PriorityOrder) THEN 0
    ELSE IF q.queues[PriorityOrder[k]] # <<>> THEN PriorityOrder[k]
    ELSE FirstNonEmpty(q, k + 1)

(* deque.pop(): the rightmost item and the rest *)
pop(lane) == [item |-> lane[Len(lane)], rest |-> SubSeq(lane, 1, Len(lane) - 1)]

(* a variant of popleft that returns the leftmost item and leaves it in place *)
popleft_Peeks(lane) == [item |-> Head(lane), rest |-> lane]

(* deque.popleft(): the leftmost item and the rest *)
popleft(lane) == [item |-> Head(lane), rest |-> Tail(lane)]

pop_request(q) ==
    LET p == FirstNonEmpty(q, 1)
    IN IF p = 0 THEN q
       ELSE [q EXCEPT !.queues[p] = popleft(q.queues[p]).rest,
                      !.total_size = @ - 1]

pop_request_ret(q) ==
    LET p == FirstNonEmpty(q, 1)
    IN IF p = 0 THEN NoRequest ELSE popleft(q.queues[p]).item

Accepted == request_queue.total_size + Len(taken)

Waiting == {c \in Consumers : consumers[c].pc = "waiting"}

(* condition.wait(): the owner of the lock while the thread c waits.  The wait
   gives the lock up and takes it again before it returns. *)
condition_wait_KeepsLock(c) == c
condition_wait(c) == 0

(* condition.notify(): wakes one of the waiting threads, if any *)
Notified(cs, c) == [cs EXCEPT ![c].pc = "woken"]

AddRequest(priority) ==
    LET request == [id |-> Accepted + 1, priority |-> priority]
        ok == add_request_ret(request_queue, request)
    IN /\ Accepted < MaxItems
       /\ queue_lock = 0
       /\ request_queue' = add_request(request_queue, request)
       /\ IF ok /\ Waiting # {}
          THEN \E c \in Waiting : consumers' = Notified(consumers, c)
          ELSE consumers' = consumers
       /\ last_call' = [op |-> "add_request", request |-> request, ret |-> ok]
       /\ UNCHANGED <<now, taken, queue_lock, rlVars, cbVars, lbVars, cacheVars, mgrVars>>

(* the body of get_request from its while loop on, for the thread c whose
   deadline is end_time: wait, give up, or take *)
GetRequestLoop(c, end_time) ==
    IF request_queue.total_size = 0
    THEN /\ IF end_time - now <= 0
            THEN /\ consumers' = [consumers EXCEPT ![c] = [pc |-> "idle", end_time |-> 0]]
                 /\ queue_lock' = 0
                 /\ last_call' = [op |-> "get_request", consumer |-> c, ret |-> NoRequest]
            ELSE /\ consumers' = [consumers EXCEPT ![c] = [pc |-> "waiting", end_time |-> end_time]]
                 /\ queue_lock' = condition_wait(c)
                 /\ last_call' = [op |-> "wait", consumer |-> c]
         /\ UNCHANGED <<request_queue, taken>>
    ELSE /\ request_queue' = pop_request(request_queue)
         /\ queue_lock' = 0
         /\ consumers' = [consumers EXCEPT ![c] = [pc |-> "idle", end_time |-> 0]]
         /\ taken' = IF pop_request_ret(request_queue) = NoRequest THEN taken
                     ELSE Append(taken, pop_request_ret(request_queue))
         /\ last_call' = [op |-> "get_request", consumer |-> c,
                          ret |-> pop_request_ret(request_queue)]

(* a thread calls get_request(timeout) *)
GetRequest(c, timeout) ==
    /\ consumers[c].pc = "idle"
    /\ queue_lock = 0
    /\ GetRequestLoop(c, now + timeout)
    /\ UNCHANGED <<now, rlVars, cbVars, lbVars, cacheVars, mgrVars>>

(* condition.wait(remaining_time) returns: the thread was notified or its time is up *)
GetRequestWake(c) ==
    /\ \/ consumers[c].pc = "woken"
       \/ consumers[c].pc = "waiting" /\ now >= consumers[c].end_time
    /\ queue_lock \in {0, c}
    /\ GetRequestLoop(c, consumers[c].end_time)
    /\ UNCHANGED <<now, rlVars, cbVars, lbVars, cacheVars, mgrVars>>

----------------------------------------------------------------------------
(* APIManager *)

MaxRequests == 2           \* APIRequest objects created by the callers in one run
Workers == {1, 2}          \* the worker tasks, max_concurrent of them (default 10)
ManagerTime == 2           \* the manager is explored up to this time

(* the configuration of the manager, scaled down: APIManager builds
   CircuitBreaker() with 5, 60, 3 and RequestQueue() with 10000, APIRequest has
   max_retries 3, the worker polls with timeout 1.0 *)
ManagerFailureThreshold == 2
ManagerRecoveryTimeout == 0
ManagerSuccessThreshold == 1
ManagerQueueSize == 2
ManagerCacheTtl == 1
DefaultMaxRetries == 1
PollTimeout == 1

(* what a transfer can end in: the status of the response, no response within
   the item's timeout, or an error raised by the transport or by response.json() *)
Outcomes == {"200", "429", "500", "timeout", "error"}
RetryAfters == {1}         \* the Retry-After header of a 429 response, in seconds

(* the requests callers submit: priority, callback (none, a plain function or a
   coroutine function), url, and whether data can be dumped as JSON *)
RequestKinds ==
    { [priority |-> NORMAL, callback |-> "sync",  url |-> 1, serializable |-> TRUE],
      [priority |-> URGENT, callback |-> "async", url |-> 1, serializable |-> TRUE],
      [priority |-> NORMAL, callback |-> "sync",  url |-> 2, serializable |-> FALSE],
      [priority |-> LOW,    callback |-> "none",  url |-> 2, serializable |-> TRUE] }

(* APIRequest(...): retry_count starts at 0; context is the id of the object *)
NewRequest(kind) ==
    [priority |-> kind.priority, callback |-> kind.callback, url |-> kind.url,
     serializable |-> kind.serializable,
     retry_count |-> 0, max_retries |-> DefaultMaxRetries]

NewStats ==
    [total_requests |-> 0, successful_requests |-> 0, failed_requests |-> 0,
     cached_responses |-> 0, circuit_breaker_trips |-> 0]

(* a worker task: where it is (pc) and the locals of _worker and _process_request;
   callbacks is an observer, the callback invocations of the attempt *)
IdleWorker(pc) ==
    [pc |-> pc, request |-> NoRequest, cache_key |-> 0, endpoint |-> NoEndpoint,
     status |-> "", success |-> FALSE, result |-> NoResult,
     wake_at |-> 0, start_time |-> 0, ready_at |-> 0, callbacks |-> 0]

(* the md5 fingerprint of method, url and data: requests differ in their url only *)
get_cache_key(request) == request.url

(* bool(x) of a cached result: None and the empty dict are falsy *)
PyTruthy(result) == result # NoResult /\ result # "{}"

(* time in milliseconds, the unit of get_wait_time *)
Millis(t) == 1000 * t

(* a timer set for time t has expired; at the horizon every timer may expire,
   the time beyond it is not told apart *)
Expired(t) == Millis(now) >= t \/ now >= ManagerTime

(* the event loop runs one task at a time: the worker w can go on if it is the
   task being run, and can be resumed if no task is *)
Continues(w) == running = w
Resumes(w) == running = 0

(* stats[k] += 1 *)
Incr(st, k) == [st EXCEPT ![k] = @ + 1]

(* the item the worker w processes *)
ItemOf(w) == requests[workers[w].request.id]

(* back to the head of the while loop, the locals dropped *)
BackToLoop(ws, w) ==
    [ws EXCEPT ![w] = [IdleWorker("loop") EXCEPT !.callbacks = ws[w].callbacks]]

(* APIManager.add_request(request), from any thread: a caller creates a request
   and submits it *)
Submit(kind) ==
    LET id == Len(requests) + 1
        request == [id |-> id, priority |-> kind.priority]
    IN /\ Len(requests) < MaxRequests
       /\ queue_lock = 0
       /\ requests' = Append(requests, NewRequest(kind))
       /\ request_queue' = add_request(request_queue, request)
       /\ last_call' = [op |-> "submit", request |-> request,
                        ret |-> add_request_ret(request_queue, request)]
       /\ UNCHANGED <<now, consumers, taken, queue_lock, rlVars, cbVars, lbVars,
                      cacheVars, processing, session, manager, running, workers,
                      stats, last_send>>

(* await manager.start(): the session, the flag, one task per worker *)
Start ==
    /\ manager = "created"
    /\ running = 0
    /\ session' = "open"
    /\ processing' = TRUE
    /\ workers' = [w \in Workers |-> IdleWorker("loop")]
    /\ manager' = "running"
    /\ last_call' = [op |-> "start"]
    /\ UNCHANGED <<now, rlVars, cbVars, lbVars, queueVars, cacheVars, running,
                   stats, requests, last_send>>

(* await manager.stop(), up to its await of asyncio.gather on the worker tasks *)
Stop ==
    /\ manager = "running"
    /\ running = 0
    /\ processing' = FALSE
    /\ manager' = "stopping"
    /\ last_call' = [op |-> "stop"]
    /\ UNCHANGED <<now, rlVars, cbVars, lbVars, queueVars, cacheVars, session,
                   running, workers, stats, requests, last_send>>

(* asyncio.gather returns once every worker task has returned *)
gather_done_WaitsForNone(ws) == TRUE
gather_done(ws) == \A w \in Workers : ws[w].pc = "done"

(* the rest of stop(): the session is closed *)
StopFinish ==
    /\ manager = "stopping"
    /\ running = 0
    /\ gather_done(workers)
    /\ session' = "closed"
    /\ manager' = "stopped"
    /\ last_call' = [op |-> "stopped"]
    /\ UNCHANGED <<now, rlVars, cbVars, lbVars, queueVars, cacheVars, processing,
                   running, workers, stats, requests, last_send>>

(* get_request has an item for the worker w: w starts _process_request *)
WorkerTakes(w) ==
    /\ request_queue' = pop_request(request_queue)
    /\ queue_lock' = 0
    /\ taken' = Append(taken, pop_request_ret(request_queue))
    /\ workers' = [workers EXCEPT ![w] = [IdleWorker("process") EXCEPT
                                             !.request = pop_request_ret(request_queue)]]
    /\ running' = w
    /\ last_call' = [op |-> "take", worker |-> w,
                     request |-> pop_request_ret(request_queue)]

(* while self.processing: request = self.request_queue.get_request(timeout=1.0).
   The call is made by the task itself: while it waits in condition.wait the
   event loop runs nothing else. *)
loop_condition_Always(p) == TRUE
loop_condition(p) == p

WorkerLoop(w) ==
    /\ workers[w].pc = "loop"
    /\ running \in {0, w}
    /\ IF ~loop_condition(processing)
       THEN /\ workers' = [workers EXCEPT ![w] = IdleWorker("done")]
            /\ running' = 0
            /\ last_call' = [op |-> "worker_stopped", worker |-> w]
            /\ UNCHANGED <<request_queue, taken, queue_lock>>
       ELSE /\ queue_lock = 0
            /\ IF request_queue.total_size = 0
               THEN /\ workers' = [workers EXCEPT ![w].pc = "polling",
                                                  ![w].wake_at = Millis(now + PollTimeout)]
                    /\ queue_lock' = condition_wait(w)
                    /\ running' = w
                    /\ last_call' = [op |-> "poll", worker |-> w]
                    /\ UNCHANGED <<request_queue, taken>>
               ELSE WorkerTakes(w)
    /\ UNCHANGED <<now, consumers, rlVars, cbVars, lbVars, cacheVars, processing,
                   session, manager, stats, requests, last_send>>

(* condition.wait returns in get_request: an item was added, or the second is
   over and get_request returns None; the worker goes round its loop *)
WorkerPollWake(w) ==
    /\ workers[w].pc = "polling"
    /\ queue_lock \in {0, w}
    /\ IF request_queue.total_size = 0
       THEN /\ Expired(workers[w].wake_at)
            /\ workers' = BackToLoop(workers, w)
            /\ queue_lock' = 0
            /\ last_call' = [op |-> "poll_timeout", worker |-> w]
            /\ UNCHANGED <<request_queue, taken, running>>
       ELSE WorkerTakes(w)
    /\ UNCHANGED <<now, consumers, rlVars, cbVars, lbVars, cacheVars, processing,
                   session, manager, stats, requests, last_send>>

(* an exception leaves _process_request: the except clause of the worker's loop
   logs it and the loop goes on *)
on_worker_error_Ends(ws, w) == [ws EXCEPT ![w] = IdleWorker("done")]
on_worker_error(ws, w) == BackToLoop(ws, w)

(* _process_request up to the cache: the key (json.dumps raises TypeError on data
   it cannot dump), the lookup, the return of a cached result *)
WorkerProcess(w) ==
    /\ workers[w].pc = "process"
    /\ Continues(w)
    /\ IF ~ItemOf(w).serializable
       THEN /\ workers' = on_worker_error(workers, w)
            /\ running' = IF workers'[w].pc = "done" THEN 0 ELSE w
            /\ last_call' = [op |-> "worker_error", worker |-> w,
                             request |-> workers[w].request]
            /\ UNCHANGED <<cache, cache_times, stats>>
       ELSE LET key == get_cache_key(ItemOf(w))
                got == get_from_cache(cache, cache_times, cache_ttl, key, now)
            IN /\ cache' = got.cache
               /\ cache_times' = got.cache_times
               /\ running' = w
               /\ IF PyTruthy(got.ret)
                  THEN /\ stats' = Incr(stats, "cached_responses")
                       /\ workers' = [workers EXCEPT ![w].pc = "callback",
                                                     ![w].result = got.ret]
                       /\ last_call' = [op |-> "cache_hit", worker |-> w,
                                        request |-> workers[w].request]
                  ELSE /\ stats' = stats
                       /\ workers' = [workers EXCEPT ![w].pc = "admit",
                                                     ![w].cache_key = key]
                       /\ last_call' = [op |-> "cache_miss", worker |-> w,
                                        request |-> workers[w].request]
    /\ UNCHANGED <<now, cache_ttl, rlVars, cbVars, lbVars, queueVars, processing,
                   session, manager, requests, last_send>>

(* the rejection of an attempt by the breaker: one more trip in the stats *)
reject_AsFailure(st) == Incr(Incr(st, "circuit_breaker_trips"), "failed_requests")
reject(st) == Incr(st, "circuit_breaker_trips")

(* the wait the worker makes for the rate limiter *)
rate_wait_None(rl, t) == 0
rate_wait(rl, t) == get_wait_time(rl, t)

(* the breaker's admission, then the rate limiter's wait *)
WorkerAdmit(w) ==
    /\ workers[w].pc = "admit"
    /\ Continues(w)
    /\ circuit_breaker' = cb_can_make_request(circuit_breaker, now)
    /\ trial_successes' = IF circuit_breaker'.state = "HALF_OPEN"
                             /\ circuit_breaker.state # "HALF_OPEN"
                          THEN 0 ELSE trial_successes
    /\ IF ~cb_can_make_request_ret(circuit_breaker, now)
       THEN /\ stats' = reject(stats)
            /\ workers' = [workers EXCEPT ![w].pc = "callback"]
            /\ running' = w
            /\ last_call' = [op |-> "rejected", worker |-> w,
                             request |-> workers[w].request]
       ELSE /\ stats' = stats
            /\ LET wait_time == rate_wait(rate_limiter, now)
                   ready == Millis(rate_limiter.last_request_time)
                               + RequiredInterval(rate_limiter)
               IN IF wait_time > 0
                  THEN /\ workers' = [workers EXCEPT ![w].pc = "rate_sleep",
                                                     ![w].wake_at = Millis(now) + wait_time,
                                                     ![w].ready_at = ready]
                       /\ running' = 0
                       /\ last_call' = [op |-> "rate_sleep", worker |-> w]
                  ELSE /\ workers' = [workers EXCEPT ![w].pc = "select",
                                                     ![w].ready_at = ready]
                       /\ running' = w
                       /\ last_call' = [op |-> "admitted", worker |-> w]
    /\ UNCHANGED <<now, consec_failures, rlVars, lbVars, queueVars, cacheVars,
                   processing, session, manager, requests, last_send>>

(* asyncio.sleep(wait_time) is over *)
WorkerRateWake(w) ==
    /\ workers[w].pc = "rate_sleep"
    /\ Resumes(w)
    /\ Expired(workers[w].wake_at)
    /\ workers' = [workers EXCEPT ![w].pc = "select", ![w].wake_at = 0]
    /\ running' = w
    /\ last_call' = [op |-> "rate_wake", worker |-> w]
    /\ UNCHANGED <<now, rlVars, cbVars, lbVars, queueVars, cacheVars, processing,
                   session, manager, stats, requests, last_send>>

(* the endpoint is chosen and the transfer started: session.request(...) *)
WorkerSelect(w) ==
    /\ workers[w].pc = "select"
    /\ Continues(w)
    /\ \E e \in get_endpoint(endpoints) :
          IF e = NoEndpoint
          THEN /\ workers' = [workers EXCEPT ![w].pc = "callback", ![w].ready_at = 0]
               /\ running' = w
               /\ last_call' = [op |-> "no_endpoint", worker |-> w]
          ELSE /\ workers' = [workers EXCEPT ![w].pc = "transfer",
                                             ![w].endpoint = e,
                                             ![w].start_time = now]
               /\ running' = 0
               /\ last_call' = [op |-> "send", worker |-> w, endpoint |-> e,
                                request |-> workers[w].request]
    /\ last_send' = IF workers'[w].pc = "transfer" THEN now ELSE last_send
    /\ UNCHANGED <<now, rlVars, cbVars, lbVars, queueVars, cacheVars, processing,
                   session, manager, stats, requests>>

(* the bodies a response can carry: the JSON objects of Results, and one that
   is not JSON *)
Bodies == Results \cup {"<html>"}

(* await response.json() returns the parsed body, or raises for a body that
   is not JSON; the exception is caught by "except Exception" *)
ParsesAsJson(body) == body \in Results

(* the transfer ends.  200: the parsed body is the result, it is counted and
   cached; a body that does not parse is logged as a request error.
   429: the worker sleeps for Retry-After.  Anything else is logged. *)
WorkerResponse(w, outcome, body, retry_after) ==
    /\ workers[w].pc = "transfer"
    /\ Resumes(w)
    /\ IF outcome = "200" /\ ParsesAsJson(body)
       THEN LET result == body
                put == cache_result(cache, cache_times, workers[w].cache_key, result, now)
            IN /\ cache' = put.cache
               /\ cache_times' = put.cache_times
               /\ stats' = Incr(stats, "successful_requests")
               /\ workers' = [workers EXCEPT ![w].pc = "metrics",
                                             ![w].status = outcome,
                                             ![w].success = TRUE,
                                             ![w].result = result]
               /\ running' = w
       ELSE /\ UNCHANGED <<cache, cache_times, stats>>
            /\ IF outcome = "429"
               THEN /\ workers' = [workers EXCEPT ![w].pc = "throttled",
                                                  ![w].status = outcome,
                                                  ![w].wake_at = Millis(now + retry_after)]
                    /\ running' = 0
               ELSE /\ workers' = [workers EXCEPT ![w].pc = "metrics",
                                                  ![w].status = outcome]
                    /\ running' = w
    /\ last_call' = [op |-> "response", worker |-> w, status |-> outcome,
                     body |-> body, request |-> workers[w].request]
    /\ UNCHANGED <<now, cache_ttl, rlVars, cbVars, lbVars, queueVars, processing,
                   session, manager, last_send, requests>>

(* if request.retry_count < request.max_retries *)
may_retry_OnceMore(request) == request.retry_count <= request.max_retries
may_retry(request) == request.retry_count < request.max_retries

(* the task the event loop runs when the 429 branch is left: the worker itself,
   there is no await between add_request and the call of the callback *)
after_resubmit_Yields(w) == 0
after_resubmit(w) == w

(* asyncio.sleep(retry_after) is over: the request goes back to the queue if it
   has retries left; what add_request returns is not looked at *)
WorkerThrottleWake(w) ==
    LET id == workers[w].request.id
    IN /\ workers[w].pc = "throttled"
       /\ Resumes(w)
       /\ Expired(workers[w].wake_at)
       /\ queue_lock = 0
       /\ IF may_retry(requests[id])
          THEN /\ requests' = [requests EXCEPT ![id].retry_count = @ + 1]
               /\ request_queue' = add_request(request_queue, workers[w].request)
               /\ last_call' = [op |-> "retry", worker |-> w,
                                request |-> workers[w].request,
                                ret |-> add_request_ret(request_queue, workers[w].request)]
          ELSE /\ UNCHANGED <<requests, request_queue>>
               /\ last_call' = [op |-> "no_retry", worker |-> w,
                                request |-> workers[w].request]
       /\ workers' = [workers EXCEPT ![w].pc = "metrics", ![w].wake_at = 0]
       /\ running' = after_resubmit(w)
       /\ UNCHANGED <<now, consumers, taken, queue_lock, rlVars, cbVars, lbVars,
                      cacheVars, processing, session, manager, stats, last_send>>

(* "Record metrics": the rate limiter, the load balancer, the breaker, the stats *)
WorkerMetrics(w) ==
    LET success == workers[w].success
        response_time == now - workers[w].start_time
    IN /\ workers[w].pc = "metrics"
       /\ Continues(w)
       /\ rate_limiter' = record_request(rate_limiter, success, now)
       /\ endpoints' = record_response(endpoints, workers[w].endpoint, success,
                                       response_time, now)
       /\ IF success
          THEN /\ circuit_breaker' = record_success(circuit_breaker)
               /\ consec_failures' = 0
               /\ trial_successes' = IF circuit_breaker.state = "HALF_OPEN"
                                     THEN trial_successes + 1 ELSE trial_successes
               /\ stats' = Incr(stats, "total_requests")
          ELSE /\ circuit_breaker' = record_failure(circuit_breaker, now)
               /\ consec_failures' = consec_failures + 1
               /\ trial_successes' = trial_successes
               /\ stats' = Incr(Incr(stats, "failed_requests"), "total_requests")
       /\ workers' = [workers EXCEPT ![w].pc = "callback"]
       /\ last_call' = [op |-> "metrics", worker |-> w, status |-> workers[w].status,
                        request |-> workers[w].request]
       /\ UNCHANGED <<now, queueVars, cacheVars, processing, session, manager,
                      running, last_send, requests>>

(* if request.callback: the callback is called with the result and the context;
   a coroutine function may suspend the worker; an exception it raises is logged *)
WorkerCallback(w) ==
    /\ workers[w].pc = "callback"
    /\ Continues(w)
    /\ IF ItemOf(w).callback = "none"
       THEN /\ workers' = BackToLoop(workers, w)
            /\ running' = w
            /\ last_call' = [op |-> "no_callback", worker |-> w,
                             request |-> workers[w].request]
       ELSE /\ last_call' = [op |-> "callback", worker |-> w,
                             request |-> workers[w].request,
                             result |-> workers[w].result,
                             context |-> workers[w].request.id]
            /\ \/ /\ workers' = BackToLoop([workers EXCEPT ![w].callbacks = @ + 1], w)
                  /\ running' = w
               \/ /\ ItemOf(w).callback = "async"
                  /\ workers' = [workers EXCEPT ![w].pc = "in_callback",
                                                ![w].callbacks = @ + 1]
                  /\ running' = 0
    /\ UNCHANGED <<now, rlVars, cbVars, lbVars, queueVars, cacheVars, processing,
                   session, manager, stats, last_send, requests>>

(* the awaited callback returns or raises *)
WorkerCallbackDone(w) ==
    /\ workers[w].pc = "in_callback"
    /\ Resumes(w)
    /\ workers' = BackToLoop(workers, w)
    /\ running' = w
    /\ last_call' = [op |-> "callback_done", worker |-> w]
    /\ UNCHANGED <<now, rlVars, cbVars, lbVars, queueVars, cacheVars, processing,
                   session, manager, stats, last_send, requests>>

(* APIManager(endpoints, max_concurrent, cache_ttl), not started *)
InitConstructed ==
    /\ processing = FALSE
    /\ session = "None"
    /\ manager = "created"
    /\ running = 0
    /\ workers = [w \in Workers |-> IdleWorker("none")]
    /\ stats = NewStats
    /\ requests = <<>>
    /\ last_send = NoTime

----------------------------------------------------------------------------
(* Specifications: one per component, each started from its constructor *)

DefaultRateLimiter == NewRateLimiter(10000, 1000, 100000)
DefaultCircuitBreaker == NewCircuitBreaker(5, 60, 3)
DefaultLoadBalancer == NewLoadBalancer(1)
DefaultRequestQueue == NewRequestQueue(10000)
IdleConsumers == [c \in Consumers |-> [pc |-> "idle", end_time |-> 0]]

InitObservers ==
    /\ now = 1
    /\ last_call = [op |-> "init"]
    /\ consec_failures = 0
    /\ trial_successes = 0
    /\ taken = <<>>
    /\ consumers = IdleConsumers
    /\ queue_lock = 0
    /\ InitConstructed

InitCache ==
    /\ cache = <<>>
    /\ cache_times = <<>>

(* AdaptiveRateLimiter(initial_rate, min_rate, max_rate) *)
InitRate ==
    /\ InitObservers
    /\ \E i \in InitialRates, lo \in MinRates, hi \in MaxRates :
          rate_limiter = NewRateLimiter(i, lo, hi)
    /\ circuit_breaker = DefaultCircuitBreaker
    /\ endpoints = DefaultLoadBalancer
    /\ request_queue = DefaultRequestQueue
    /\ InitCache
    /\ cache_ttl = 3600

NextRate ==
    \/ Tick(MaxTime)
    \/ \E success \in BOOLEAN : RecordRequest(success)
    \/ RateCanMakeRequest
    \/ GetWaitTime

SpecRate == InitRate /\ [][NextRate]_vars

(* CircuitBreaker(failure_threshold, recovery_timeout, success_threshold) *)
InitBreaker ==
    /\ InitObservers
    /\ rate_limiter = DefaultRateLimiter
    /\ \E f \in 1..MaxThreshold, r \in 0..MaxRecovery, k \in 1..MaxThreshold :
          circuit_breaker = NewCircuitBreaker(f, r, k)
    /\ endpoints = DefaultLoadBalancer
    /\ request_queue = DefaultRequestQueue
    /\ InitCache
    /\ cache_ttl = 3600

NextBreaker ==
    \/ Tick(MaxTime)
    \/ CanMakeRequest
    \/ RecordSuccess
    \/ RecordFailure

SpecBreaker == InitBreaker /\ [][NextBreaker]_vars

(* LoadBalancer(endpoints) *)
InitBalancer ==
    /\ InitObservers
    /\ rate_limiter = DefaultRateLimiter
    /\ circuit_breaker = DefaultCircuitBreaker
    /\ \E n \in 0..MaxEndpoints : endpoints = NewLoadBalancer(n)
    /\ request_queue = DefaultRequestQueue
    /\ InitCache
    /\ cache_ttl = 3600

NextBalancer ==
    \/ Tick(ShortTime)
    \/ GetEndpoint
    \/ \E e \in 1..Len(endpoints), success \in BOOLEAN, rt \in ResponseTimes :
          RecordResponse(e, success, rt)

SpecBalancer == InitBalancer /\ [][NextBalancer]_vars

(* the cache of APIManager(cache_ttl=...) *)
InitCacheSpec ==
    /\ InitObservers
    /\ rate_limiter = DefaultRateLimiter
    /\ circuit_breaker = DefaultCircuitBreaker
    /\ endpoints = DefaultLoadBalancer
    /\ request_queue = DefaultRequestQueue
    /\ InitCache
    /\ cache_ttl \in 1..MaxTtl

NextCache ==
    \/ Tick(MaxTime)
    \/ \E key \in 1..MaxKeys : GetFromCache(key)
    \/ \E key \in 1..MaxKeys, result \in Results : CacheResult(key, result)

SpecCache == InitCacheSpec /\ [][NextCache]_vars

(* RequestQueue(max_size) used by producer and consumer threads *)
InitQueue ==
    /\ InitObservers
    /\ rate_limiter = DefaultRateLimiter
    /\ circuit_breaker = DefaultCircuitBreaker
    /\ endpoints = DefaultLoadBalancer
    /\ \E n \in 0..MaxQueue : request_queue = NewRequestQueue(n)
    /\ InitCache
    /\ cache_ttl = 3600

NextQueue ==
    \/ Tick(ShortTime)
    \/ \E priority \in Priorities : AddRequest(priority)
    \/ \E c \in Consumers, timeout \in Timeouts : GetRequest(c, timeout)
    \/ \E c \in Consumers : GetRequestWake(c)

SpecQueue == InitQueue /\ [][NextQueue]_vars

(* APIManager: callers submit, start and stop; the workers run on the event loop *)
ManagerCircuitBreaker(failure_threshold) ==
    NewCircuitBreaker(failure_threshold, ManagerRecoveryTimeout,
                      ManagerSuccessThreshold)

InitManager ==
    /\ InitObservers
    /\ rate_limiter = DefaultRateLimiter
    /\ \E f \in 1..ManagerFailureThreshold :
          circuit_breaker = ManagerCircuitBreaker(f)
    /\ endpoints = DefaultLoadBalancer
    /\ \E m \in 1..ManagerQueueSize : request_queue = NewRequestQueue(m)
    /\ InitCache
    /\ cache_ttl = ManagerCacheTtl

WorkerStep(w) ==
    \/ WorkerLoop(w)
    \/ WorkerPollWake(w)
    \/ WorkerProcess(w)
    \/ WorkerAdmit(w)
    \/ WorkerRateWake(w)
    \/ WorkerSelect(w)
    \/ \E outcome \in Outcomes, body \in Bodies, retry_after \in RetryAfters :
          WorkerResponse(w, outcome, body, retry_after)
    \/ WorkerThrottleWake(w)
    \/ WorkerMetrics(w)
    \/ WorkerCallback(w)
    \/ WorkerCallbackDone(w)

NextManager ==
    \/ Tick(ManagerTime)
    \/ \E kind \in RequestKinds : Submit(kind)
    \/ Start
    \/ Stop
    \/ StopFinish
    \/ \E w \in Workers : WorkerStep(w)

SpecManager == InitManager /\ [][NextManager]_vars

----------------------------------------------------------------------------
(* Properties *)

RateInitiallyWithinBounds ==
    /\ rate_limiter.min_rate <= rate_limiter.initial_rate
    /\ rate_limiter.initial_rate <= rate_limiter.max_rate

(* C1: for every sequence of record_request calls on a rate limiter whose initial
   rate lies in [min_rate, max_rate], current_rate is within [min_rate, max_rate]
   in every reachable state *)
C1_RateWithinBounds ==
    RateInitiallyWithinBounds =>
        /\ rate_limiter.min_rate <= rate_limiter.current_rate
        /\ rate_limiter.current_rate <= rate_limiter.max_rate

(* a run in which the growth of the rate was cut at max_rate: two successes from
   10.0 with max_rate 10.5, and a failure recorded as well *)
C1_Witness ==
    /\ RateInitiallyWithinBounds
    /\ rate_limiter.initial_rate < rate_limiter.max_rate
    /\ rate_limiter.success_count >= 2
    /\ rate_limiter.error_count >= 1
    /\ rate_limiter.current_rate = rate_limiter.max_rate

(* C2: while the breaker is CLOSED (so every failure since the last success was
   recorded in CLOSED, starting from failure counter 0), a record_failure opens it
   exactly when it is the failure_threshold-th consecutive one and leaves it CLOSED
   when it is an earlier one; a can_make_request made right after a record_failure
   that left the breaker OPEN, with no time passed, returns false and changes nothing *)
C2_OpensAtThreshold ==
    [][ /\ (last_call'.op = "record_failure" /\ circuit_breaker.state = "CLOSED") =>
             /\ consec_failures' = circuit_breaker.failure_threshold
                   => circuit_breaker'.state = "OPEN"
             /\ consec_failures' < circuit_breaker.failure_threshold
                   => circuit_breaker'.state = "CLOSED"
        /\ (/\ last_call.op = "record_failure"
            /\ circuit_breaker.state = "OPEN"
            /\ last_call'.op = "can_make_request") =>
             /\ last_call'.ret = FALSE
             /\ circuit_breaker' = circuit_breaker ]_vars

(* threshold 2: two failures in CLOSED opened the breaker and the admission check
   that followed at once was refused *)
C2_Witness ==
    /\ circuit_breaker.failure_threshold = 2
    /\ consec_failures = 2
    /\ circuit_breaker.failure_count = 2
    /\ circuit_breaker.state = "OPEN"
    /\ circuit_breaker.last_failure_time = now
    /\ last_call.op = "can_make_request"
    /\ last_call.ret = FALSE

(* C3: a can_make_request on an OPEN breaker returns false and changes nothing while
   no more than recovery_timeout has passed since the last recorded failure; once
   more than that has passed it returns true, sets the state to HALF_OPEN and the
   trial success counter to 0; and only a can_make_request takes the breaker out of
   OPEN *)
C3_LazyRecovery ==
    [][ /\ (last_call'.op = "can_make_request" /\ circuit_breaker.state = "OPEN") =>
             IF now - circuit_breaker.last_failure_time > circuit_breaker.recovery_timeout
             THEN /\ last_call'.ret = TRUE
                  /\ circuit_breaker'.state = "HALF_OPEN"
                  /\ circuit_breaker'.success_count = 0
             ELSE /\ last_call'.ret = FALSE
                  /\ circuit_breaker' = circuit_breaker
        /\ (circuit_breaker.state = "OPEN" /\ circuit_breaker'.state # "OPEN") =>
             last_call'.op = "can_make_request" ]_vars

(* an admission check found the recovery timeout of a re-opened breaker elapsed:
   HALF_OPEN again, after a trial success had been counted in the earlier HALF_OPEN *)
C3_Witness ==
    /\ last_call.op = "can_make_request"
    /\ last_call.ret = TRUE
    /\ circuit_breaker.state = "HALF_OPEN"
    /\ circuit_breaker.recovery_timeout >= 1
    /\ circuit_breaker.success_count = 0
    /\ trial_successes = 0
    /\ circuit_breaker.success_threshold = 2
    /\ circuit_breaker.failure_count > circuit_breaker.failure_threshold

(* C4: in HALF_OPEN a record_failure moves the breaker to OPEN and sets the failure
   time to now; the success_threshold-th record_success since HALF_OPEN was entered
   moves it to CLOSED with both counters 0, and an earlier one leaves it HALF_OPEN *)
C4_HalfOpenTransitions ==
    [][ /\ (last_call'.op = "record_failure" /\ circuit_breaker.state = "HALF_OPEN") =>
             /\ circuit_breaker'.state = "OPEN"
             /\ circuit_breaker'.last_failure_time = now
        /\ (last_call'.op = "record_success" /\ circuit_breaker.state = "HALF_OPEN") =>
             /\ trial_successes' = circuit_breaker.success_threshold =>
                   /\ circuit_breaker'.state = "CLOSED"
                   /\ circuit_breaker'.failure_count = 0
                   /\ circuit_breaker'.success_count = 0
             /\ trial_successes' < circuit_breaker.success_threshold =>
                   circuit_breaker'.state = "HALF_OPEN" ]_vars

(* success_threshold 2: the second trial success closed the breaker *)
C4_Witness ==
    /\ last_call.op = "record_success"
    /\ circuit_breaker.success_threshold = 2
    /\ trial_successes = 2
    /\ circuit_breaker.state = "CLOSED"
    /\ circuit_breaker.last_failure_time # NoTime

(* C5: record_success sets the failure counter to 0 in every state, and the breaker
   leaves CLOSED only by a record_failure that is at least the failure_threshold-th
   since the last record_success *)
C5_SuccessResetsFailures ==
    [][ /\ last_call'.op = "record_success" => circuit_breaker'.failure_count = 0
        /\ (circuit_breaker.state = "CLOSED" /\ circuit_breaker'.state # "CLOSED") =>
             /\ last_call'.op = "record_failure"
             /\ circuit_breaker'.state = "OPEN"
             /\ consec_failures' >= circuit_breaker.failure_threshold ]_vars

(* threshold 2: failure, success, failure and the breaker, never opened, is CLOSED *)
C5_Witness ==
    /\ circuit_breaker.failure_threshold = 2
    /\ circuit_breaker.state = "CLOSED"
    /\ trial_successes = 0
    /\ last_call.op = "record_failure"
    /\ consec_failures = 1
    /\ circuit_breaker.last_failure_time > 1

SomeHealthy == \E i \in 1..Len(endpoints) : endpoints[i].health_score > HealthThreshold

(* C6: after any sequence of record_response calls, get_endpoint returns, for every
   draw, an endpoint of the set when the set is non-empty, and one with health score
   > 0.5 when some endpoint has such a score *)
C6_SelectsHealthy ==
    last_call.op = "get_endpoint" =>
        /\ Len(endpoints) > 0 => last_call.ret \in 1..Len(endpoints)
        /\ SomeHealthy => endpoints[last_call.ret].health_score > HealthThreshold

(* two endpoints, one driven to 0.4 by three failures, and the other returned *)
C6_Witness ==
    /\ last_call.op = "get_endpoint"
    /\ Len(endpoints) = 2
    /\ \E i \in 1..2 : endpoints[i].health_score <= HealthThreshold
    /\ SomeHealthy
    /\ last_call.ret # NoEndpoint

(* C7: a lookup of a stored key returns the stored response, and changes nothing,
   only while now - insertion time < ttl; otherwise it returns None and removes the
   key from cache and cache_times, so the cache is one entry smaller *)
C7_CacheTtl ==
    [][ last_call'.op = "_get_from_cache" =>
          LET key == last_call'.key
              live == now - DictGet(cache_times, key) < cache_ttl
          IN /\ (DictHas(cache, key) /\ live) =>
                  /\ last_call'.ret = DictGet(cache, key)
                  /\ UNCHANGED <<cache, cache_times>>
             /\ (DictHas(cache, key) /\ ~live) =>
                  /\ last_call'.ret = NoResult
                  /\ ~DictHas(cache', key)
                  /\ ~DictHas(cache_times', key)
                  /\ Len(cache') = Len(cache) - 1
                  /\ Len(cache_times') = Len(cache_times) - 1
             /\ ~DictHas(cache, key) => last_call'.ret = NoResult ]_vars

(* an entry looked up after its ttl: None was returned and the entry is gone, while
   another entry stays *)
C7_Witness ==
    /\ last_call.op = "_get_from_cache"
    /\ last_call.branch = "expired"
    /\ last_call.ret = NoResult
    /\ ~DictHas(cache, last_call.key)
    /\ ~DictHas(cache_times, last_call.key)
    /\ Len(cache) = 1

(* C8: add_request returns false and leaves the queue unchanged when total_size
   equals max_size, and otherwise returns true and appends the request to its
   priority lane; total_size never exceeds max_size *)
C8_Backpressure ==
    /\ [](request_queue.total_size <= request_queue.max_size)
    /\ [][ last_call'.op = "add_request" =>
              LET request == last_call'.request
              IN IF request_queue.total_size = request_queue.max_size
                 THEN /\ last_call'.ret = FALSE
                      /\ request_queue' = request_queue
                 ELSE /\ last_call'.ret = TRUE
                      /\ request_queue'.total_size = request_queue.total_size + 1
                      /\ request_queue'.queues =
                            [request_queue.queues EXCEPT ![request.priority] =
                                Append(@, request)] ]_vars

(* capacity 2 and three NORMAL submits: the third returned false *)
C8_Witness ==
    /\ request_queue.max_size = 2
    /\ Len(request_queue.queues[NORMAL]) = 2
    /\ last_call.op = "add_request"
    /\ last_call.request.priority = NORMAL
    /\ last_call.ret = FALSE

NonEmpty(q) == \E p \in Priorities : q.queues[p] # <<>>

(* C9: a get_request that completes while the queue is non-empty returns a request,
   the head of a lane, and no lane of higher priority holds a request at that moment *)
C9_StrictPriority ==
    [][ (last_call'.op = "get_request" /\ NonEmpty(request_queue)) =>
          LET request == last_call'.ret
          IN /\ request # NoRequest
             /\ request = Head(request_queue.queues[request.priority])
             /\ \A p \in Priorities :
                   p > request.priority => request_queue.queues[p] = <<>> ]_vars

(* a HIGH or URGENT request was taken while a request of lower priority, added
   before it, stays in the queue *)
C9_Witness ==
    /\ last_call.op = "get_request"
    /\ last_call.ret # NoRequest
    /\ \E p \in Priorities :
          /\ p < last_call.ret.priority
          /\ request_queue.queues[p] # <<>>
          /\ Head(request_queue.queues[p]).id < last_call.ret.id

(* C10: of two requests of the same priority the one added first (the smaller id)
   is returned by get_request first: the requests taken from one lane are in the
   order of their ids, and no request still queued was added before a taken one of
   its priority *)
C10_FifoWithinLane ==
    /\ \A i, j \in 1..Len(taken) :
          (i < j /\ taken[i].priority = taken[j].priority) => taken[i].id < taken[j].id
    /\ \A i \in 1..Len(taken) :
          \A k \in 1..Len(request_queue.queues[taken[i].priority]) :
             taken[i].id < request_queue.queues[taken[i].priority][k].id

(* two requests of one priority were taken in the order of their ids, although a
   request was added between them *)
C10_Witness ==
    /\ Len(taken) >= 2
    /\ \E i, j \in 1..Len(taken) :
          /\ i < j
          /\ taken[i].priority = taken[j].priority
          /\ taken[j].id > taken[i].id + 1

----------------------------------------------------------------------------
(* APIManager: properties of the worker's steps *)

(* the worker w leaves pc `from` for pc `to` in this step *)
Moves(w, from, to) == workers[w].pc = from /\ workers'[w].pc = to

(* the request with this id waits in the lane of its priority *)
Queued(q, id) ==
    \E i \in 1..Len(q.queues[requests[id].priority]) :
       q.queues[requests[id].priority][i].id = id

(* C11: when a transfer returned 429 and the item has retries left, the worker,
   once the Retry-After sleep is over, puts the item back into the lane of its
   priority with retry_count incremented by exactly 1, from where it is
   attempted again. *)
C11_RetryResubmits ==
    [][\A w \in Workers :
          Moves(w, "throttled", "metrics")
          /\ ItemOf(w).retry_count < ItemOf(w).max_retries
          => /\ requests'[workers[w].request.id].retry_count = ItemOf(w).retry_count + 1
             /\ Queued(request_queue', workers[w].request.id)]_vars

(* C12: an attempt whose transfer returned 429 is recorded to the breaker as
   neither a success nor a failure (state, failure_count, success_count and
   last_failure_time are as before), and to the rate limiter as a non-success. *)
C12_ThrottleNotAFailure ==
    [][\A w \in Workers :
          Moves(w, "metrics", "callback") /\ workers[w].status = "429"
          => /\ circuit_breaker' = circuit_breaker
             /\ rate_limiter'.error_count = rate_limiter.error_count + 1
             /\ rate_limiter'.success_count = rate_limiter.success_count]_vars

(* the accounting of attempts: rate limiter, breaker, endpoints, and the counts
   of requests, successes and failures *)
Accounting ==
    <<rate_limiter, circuit_breaker, endpoints, stats.total_requests,
      stats.successful_requests, stats.failed_requests>>

(* C13: when the cache holds a live entry for the key of the item, whatever the
   response value stored, the attempt returns that entry without a transfer and
   leaves the rate limiter, the breaker, the endpoints and the counts of
   requests, successes and failures as they were. *)
C13_LiveEntryReturned ==
    [][\A w \in Workers :
          /\ workers[w].pc = "process" /\ workers'[w].pc # "process"
          /\ ItemOf(w).serializable
          /\ DictHas(cache, get_cache_key(ItemOf(w)))
          /\ CacheLive(cache, cache_times, cache_ttl, get_cache_key(ItemOf(w)), now)
          => /\ workers'[w].pc = "callback"
             /\ workers'[w].result = DictGet(cache, get_cache_key(ItemOf(w)))
             /\ UNCHANGED Accounting]_vars

(* C14: when the breaker denies admission the attempt makes no transfer and
   returns None; it is counted as a rejection (circuit_breaker_trips) and not as
   a failure: failed_requests, the rate limiter, the endpoints and the breaker's
   failure counter are as before; and the item is not put back into the queue,
   neither by the rejection nor by the callback that follows it. *)
C14_RejectionNotFailure ==
    [][\A w \in Workers :
          /\ /\ workers[w].pc = "admit" /\ workers'[w].pc # "admit"
             /\ ~cb_can_make_request_ret(circuit_breaker, now)
             => /\ workers'[w].pc = "callback"
                /\ workers'[w].result = NoResult
                /\ last_send' = last_send
                /\ stats' = [stats EXCEPT !.circuit_breaker_trips = @ + 1]
                /\ rate_limiter' = rate_limiter
                /\ endpoints' = endpoints
                /\ circuit_breaker'.failure_count = circuit_breaker.failure_count
                /\ request_queue' = request_queue
          /\ /\ workers[w].pc \in {"callback", "in_callback"}
             /\ workers'[w] # workers[w]
             => request_queue' = request_queue]_vars

(* a worker's attempt has just been rejected by the breaker, opened by two failures *)
C14_Witness ==
    /\ last_call.op = "rejected"
    /\ circuit_breaker.state = "OPEN"
    /\ stats.circuit_breaker_trips = 1
    /\ stats.failed_requests = ManagerFailureThreshold

(* the attempt of the worker w ends in this step: w is back at the head of its
   loop, or has stopped, after having taken an item *)
AttemptEnds(w) ==
    /\ workers[w].pc \in {"process", "callback", "in_callback"}
    /\ workers'[w].pc \in {"loop", "done"}

(* C15: for every item a worker took that carries a callback, the callback has
   been invoked exactly once when the attempt ends, whatever the outcome: cache
   hit, rejection by the breaker, success, 429, failure status, timeout,
   transport error, or an error raised while the item was processed. *)
C15_CallbackOncePerAttempt ==
    [][\A w \in Workers :
          AttemptEnds(w) /\ ItemOf(w).callback # "none"
          => workers'[w].callbacks = 1]_vars

(* C16: APIManager.add_request returns False exactly when the queue holds
   max_size items and True otherwise, and it waits for nothing but the lock of
   the queue, which nobody keeps: whatever the workers do, also when none exists
   or none ever takes an item, a caller's submission can be made and completes.
   Only get_request waits, and it gives the lock up while it does. *)
C16_SubmitNeverWaits ==
    /\ [][Len(requests') > Len(requests)
          => /\ last_call'.op = "submit"
             /\ last_call'.ret = (request_queue.total_size < request_queue.max_size)]_vars
    /\ [](/\ queue_lock = 0
          /\ Len(requests) < MaxRequests => ENABLED (\E kind \in RequestKinds : Submit(kind)))

(* a submission was refused by a full queue before any worker existed *)
C16_Witness ==
    /\ last_call.op = "submit"
    /\ last_call.ret = FALSE
    /\ manager = "created"
    /\ request_queue.total_size = request_queue.max_size

(* C17, as claimed: any two transfers, whichever workers start them, are at least
   1/current_rate apart.  (Stated for the times below the horizon, where the
   clock tells them apart.) *)
C17_IntervalBetweenTransfers ==
    [][\A w \in Workers :
          Moves(w, "select", "transfer") /\ last_send # NoTime /\ now < ManagerTime
          => Millis(now) - Millis(last_send) >= RequiredInterval(rate_limiter)]_vars

(* C17, amended: a transfer starts at least 1/current_rate after the last outcome
   recorded to the rate limiter before the worker's own rate check, with
   current_rate as read by that check (ready_at).  Transfers of workers whose
   checks read the same last_request_time are not kept apart.  (Stated for the
   ready times within the horizon.) *)
C17_IntervalAfterRecordedOutcome ==
    [][\A w \in Workers :
          Moves(w, "select", "transfer") /\ workers[w].ready_at <= Millis(ManagerTime)
          => Millis(now) >= workers[w].ready_at]_vars

(* a worker found the last outcome too recent, slept, and has started its transfer *)
C17_Witness ==
    /\ last_call.op = "send"
    /\ workers[last_call.worker].ready_at > Millis(rate_limiter.last_request_time)
    /\ rate_limiter.last_request_time = 1
    /\ workers[last_call.worker].ready_at <= Millis(ManagerTime)
    /\ now = 2

(* C18: once stop() has cleared the processing flag no worker takes an item from
   the queue any more, and the session is closed only when every worker has left
   its loop, so that no attempt is in flight. *)
C18_ShutdownDrain ==
    /\ [][(manager = "stopping" \/ manager = "stopped")
          => /\ taken' = taken
             /\ \A w \in Workers :
                   workers'[w].pc = "process" => workers[w].pc = "process"]_vars
    /\ [][session' = "closed" /\ session # "closed"
          => \A w \in Workers : workers[w].pc = "done"]_vars
    /\ [](session = "closed" => \A w \in Workers : workers[w].pc = "done")

(* stop() has cleared the flag while a transfer is in flight and an item waits *)
C18_Witness ==
    /\ manager = "stopping"
    /\ request_queue.total_size > 0
    /\ \E w \in Workers : workers[w].pc = "transfer"

(* C20: no error raised while an item is processed, transferred or its callback
   run ends a worker: after the error the worker is back at the head of its loop,
   a worker only returns once processing is False, and while processing is True
   all the workers created by start() are running. *)
C20_ErrorsKeepWorkers ==
    /\ [][\A w \in Workers :
             /\ workers[w].pc = "process" /\ ~ItemOf(w).serializable
                /\ workers'[w] # workers[w]
                => workers'[w].pc = "loop"
             /\ workers[w].pc = "transfer" /\ workers'[w] # workers[w]
                => workers'[w].pc \in {"metrics", "throttled"}
             /\ workers[w].pc \in {"callback", "in_callback"}
                /\ workers'[w] # workers[w]
                => workers'[w].pc \in {"loop", "in_callback"}
             /\ workers[w].pc # "done" /\ workers'[w].pc = "done"
                => ~processing]_vars
    /\ [](processing => \A w \in Workers : workers[w].pc \notin {"none", "done"})

(* json.dumps has just raised for the item of a worker, which is at the head of
   its loop again *)
C20_Witness ==
    /\ last_call.op = "worker_error"
    /\ processing
    /\ workers[last_call.worker].pc = "loop"
    /\ running = last_call.worker

----------------------------------------------------------------------------
(* APIManager under fair scheduling: the event loop runs every task that can
   run, transfers and sleeps end, the clock advances, and the caller, who wants
   to shut down, calls stop() if it gets to run again and again *)
SpecManagerFair ==
    /\ SpecManager
    /\ \A w \in Workers : WF_vars(WorkerStep(w))
    /\ WF_vars(Tick(ManagerTime))
    /\ SF_vars(Stop)
    /\ WF_vars(StopFinish)

(* C19: a worker that waits on an empty queue is held for the poll timeout at
   most and then sees the shutdown: from every state of a started manager, all
   workers idle on an empty queue included, stop() can be called, and once it is
   every worker returns and stop() completes. *)
C19_ShutdownCompletes == (manager = "running") ~> (manager = "stopped")

----------------------------------------------------------------------------
(* APIManager: the breaker, the retries and the outcomes of the transfers *)

(* the worker w makes the breaker's admission check in this step *)
AdmissionCheck(w) == workers[w].pc = "admit" /\ workers'[w].pc # "admit"

(* C21: when every transfer fails, the breaker has left CLOSED once
   failure_threshold failures are recorded; while it is OPEN and the recovery
   timeout has not elapsed since the last failure an attempt is rejected without
   a transfer; once it has elapsed the next attempt is admitted and makes the
   breaker HALF_OPEN, without anything resetting it from outside. *)
C21_PersistentFailureOpens ==
    /\ [](/\ stats.successful_requests = 0
          /\ stats.failed_requests >= circuit_breaker.failure_threshold
          => circuit_breaker.state # "CLOSED")
    /\ [][\A w \in Workers :
             AdmissionCheck(w) /\ circuit_breaker.state = "OPEN"
             => IF RecoveryElapsed(circuit_breaker, now)
                THEN /\ circuit_breaker'.state = "HALF_OPEN"
                     /\ workers'[w].pc \in {"rate_sleep", "select"}
                ELSE /\ circuit_breaker' = circuit_breaker
                     /\ workers'[w].pc = "callback"
                     /\ workers'[w].result = NoResult
                     /\ last_send' = last_send]_vars

(* after nothing but failures an attempt has just been admitted as a trial *)
C21_Witness ==
    /\ last_call.op \in {"admitted", "rate_sleep"}
    /\ circuit_breaker.state = "HALF_OPEN"
    /\ stats.successful_requests = 0
    /\ stats.failed_requests >= circuit_breaker.failure_threshold
    /\ now - circuit_breaker.last_failure_time > circuit_breaker.recovery_timeout

(* how many times the request with this id was returned by get_request *)
Attempts(id) == Cardinality({i \in 1..Len(taken) : taken[i].id = id})

(* C22: an item submitted once goes back into the queue only when its transfer
   returned 429 and it had retries left, and then its retry_count grows by
   exactly one; retry_count never exceeds max_retries, so the item is attempted
   at most max_retries + 1 times, and it is not put back after a success or when
   its retries are used up. *)
C22_BoundedRetries ==
    /\ [](\A id \in 1..Len(requests) :
             /\ requests[id].retry_count <= requests[id].max_retries
             /\ Attempts(id) <= requests[id].retry_count + 1)
    /\ [][\A id \in 1..Len(requests) :
             ~Queued(request_queue, id) /\ Queued(request_queue', id)
             => \E w \in Workers :
                   /\ Moves(w, "throttled", "metrics")
                   /\ workers[w].request.id = id
                   /\ workers[w].status = "429"
                   /\ workers[w].success = FALSE
                   /\ requests[id].retry_count < requests[id].max_retries
                   /\ requests'[id].retry_count = requests[id].retry_count + 1]_vars

(* the second attempt of an item ended in 429 too: its retries are used up and
   it is not put back *)
C22_Witness ==
    /\ last_call.op = "no_retry"
    /\ requests[last_call.request.id].retry_count = DefaultMaxRetries
    /\ Attempts(last_call.request.id) = DefaultMaxRetries + 1
    /\ ~Queued(request_queue, last_call.request.id)

----------------------------------------------------------------------------
(* AdaptiveRateLimiter and LoadBalancer: the formulas *)

(* record_request has just been called with this outcome *)
Recorded(success) ==
    last_call'.op = "record_request" /\ last_call'.success = success

(* the formula of C23: the rate after a success and after a failure *)
RateFormula ==
    /\ Recorded(TRUE)
       => rate_limiter'.current_rate
             = Min((rate_limiter.current_rate * 105) \div 100, rate_limiter.max_rate)
    /\ Recorded(FALSE)
       => rate_limiter'.current_rate
             = Max((rate_limiter.current_rate * 80) \div 100, rate_limiter.min_rate)

(* C23, as claimed: record_request(success) sets current_rate to
   min(1.05 * old, max_rate), record_request(failure) to max(0.80 * old, min_rate);
   a success never lowers the rate and a failure never raises it. *)
C23_RateFormulaMonotone ==
    [][/\ RateFormula
       /\ Recorded(TRUE) => rate_limiter'.current_rate >= rate_limiter.current_rate
       /\ Recorded(FALSE) => rate_limiter'.current_rate <= rate_limiter.current_rate]_vars

(* C23, amended: the two formulas hold for every call; a success does not lower
   and a failure does not raise the rate of a limiter whose rate is within
   [min_rate, max_rate] when the outcome is recorded. *)
C23_RateFormula ==
    [][/\ RateFormula
       /\ /\ rate_limiter.min_rate <= rate_limiter.current_rate
          /\ rate_limiter.current_rate <= rate_limiter.max_rate
          => /\ Recorded(TRUE)
                => rate_limiter'.current_rate >= rate_limiter.current_rate
             /\ Recorded(FALSE)
                => rate_limiter'.current_rate <= rate_limiter.current_rate]_vars

(* a failure has just been recorded at a rate the floor has kept at min_rate,
   after a success was recorded too *)
C23_Witness ==
    /\ last_call.op = "record_request"
    /\ last_call.success = FALSE
    /\ RateInitiallyWithinBounds
    /\ rate_limiter.success_count >= 1
    /\ rate_limiter.current_rate = rate_limiter.min_rate
    /\ rate_limiter.min_rate = 10000

----------------------------------------------------------------------------
(* C24: get_wait_time and can_make_request of the rate limiter leave the
   whole rate state as it was: current_rate, last_request_time, the window
   of timestamps and the success and error tallies. *)
RateRead == last_call'.op = "rl_can_make_request" \/ last_call'.op = "get_wait_time"

C24_ReadsLeaveRateState ==
    [][RateRead =>
          /\ rate_limiter'.current_rate = rate_limiter.current_rate
          /\ rate_limiter'.last_request_time = rate_limiter.last_request_time
          /\ rate_limiter'.request_times = rate_limiter.request_times
          /\ rate_limiter'.success_count = rate_limiter.success_count
          /\ rate_limiter'.error_count = rate_limiter.error_count
          /\ rate_limiter' = rate_limiter]_vars

(* A wait time was asked of a limiter that has recorded outcomes and whose
   last outcome is older than the call. *)
C24_Witness ==
    /\ last_call.op = "get_wait_time"
    /\ rate_limiter.success_count >= 1
    /\ rate_limiter.error_count >= 1
    /\ Len(rate_limiter.request_times) >= 1
    /\ rate_limiter.last_request_time < now

----------------------------------------------------------------------------
(* C25: after every record_request the window holds exactly the timestamps
   of the outcomes recorded during the trailing minute: the window before
   the call with the new timestamp added, less the timestamps older than
   the minute, however many outcomes the minute has seen. *)
RECURSIVE TrailingWindow(_, _)
TrailingWindow(times, cutoff) ==
    IF times = <<>> THEN <<>>
    ELSE IF Head(times) < cutoff THEN TrailingWindow(Tail(times), cutoff)
    ELSE <<Head(times)>> \o TrailingWindow(Tail(times), cutoff)

C25_WindowIsTrailingMinute ==
    [][last_call'.op = "record_request" =>
          rate_limiter'.request_times =
             TrailingWindow(Append(rate_limiter.request_times, now),
                            now - RequestTimesWindow)]_vars

----------------------------------------------------------------------------
(* C26: every endpoint's health score is within [0, 1] in every reachable
   state; record_response raises the score of its endpoint by 0.1 up to 1 on
   a success and lowers it by 0.2 down to 0 on a failure, and no other step,
   and no other endpoint's record, changes a score. *)
HealthScores(eps) == [i \in 1..Len(eps) |-> eps[i].health_score]

C26_HealthScore ==
    /\ [](\A i \in 1..Len(endpoints) :
             endpoints[i].health_score >= 0 /\ endpoints[i].health_score <= HealthMax)
    /\ [][/\ last_call'.op = "record_response" =>
               LET e == last_call'.endpoint
                   old == endpoints[e].health_score
               IN /\ HealthScores(endpoints') =
                        [HealthScores(endpoints) EXCEPT ![e] =
                            IF last_call'.success
                            THEN (IF old + HealthUp > HealthMax THEN HealthMax
                                                                ELSE old + HealthUp)
                            ELSE (IF old - HealthDown < 0 THEN 0
                                                          ELSE old - HealthDown)]
                  /\ HealthDown > HealthUp
          /\ last_call'.op # "record_response" =>
               HealthScores(endpoints') = HealthScores(endpoints)]_vars

(* a sixth failure was recorded to an endpoint the first five had brought to
   0, and the score stayed 0 *)
C26_Witness ==
    /\ last_call.op = "record_response"
    /\ ~last_call.success
    /\ endpoints[last_call.endpoint].error_count = 6
    /\ endpoints[last_call.endpoint].health_score = 0

----------------------------------------------------------------------------
(* C27: when the endpoint set is non-empty and no endpoint has a health
   score above 0.5, get_endpoint still returns an endpoint, and one whose
   health score is the highest of all, also when every score is 0. *)
C27_FallbackToBest ==
    (/\ last_call.op = "get_endpoint"
     /\ Len(endpoints) > 0
     /\ ~SomeHealthy)
       => /\ last_call.ret # NoEndpoint
          /\ last_call.ret \in 1..Len(endpoints)
          /\ \A j \in 1..Len(endpoints) :
                endpoints[j].health_score <= endpoints[last_call.ret].health_score

(* two endpoints below the threshold with different scores, and the better
   one returned *)
C27_Witness ==
    /\ last_call.op = "get_endpoint"
    /\ Len(endpoints) = 2
    /\ ~SomeHealthy
    /\ endpoints[1].health_score < endpoints[2].health_score
    /\ last_call.ret = 2

(* the only endpoint has score 0 and is returned *)
C27_WitnessAllZero ==
    /\ last_call.op = "get_endpoint"
    /\ Len(endpoints) = 1
    /\ endpoints[1].health_score = 0
    /\ last_call.ret = 1

----------------------------------------------------------------------------
(* the transfer of the worker w ends in this step with this status *)
Responds(w, status) ==
    /\ workers[w].pc = "transfer"
    /\ last_call'.op = "response"
    /\ last_call'.worker = w
    /\ last_call'.status = status

(* the "Record metrics" block of the worker w records one success, and no
   failure, to the rate limiter, to the endpoint selected and to the breaker *)
RecordsSuccess(w) ==
    LET e == workers[w].endpoint
    IN /\ rate_limiter'.success_count = rate_limiter.success_count + 1
       /\ rate_limiter'.error_count = rate_limiter.error_count
       /\ endpoints'[e].success_count = endpoints[e].success_count + 1
       /\ endpoints'[e].error_count = endpoints[e].error_count
       /\ \A j \in 1..Len(endpoints) : j # e => endpoints'[j] = endpoints[j]
       /\ circuit_breaker'.failure_count = 0
       /\ circuit_breaker'.last_failure_time = circuit_breaker.last_failure_time
       /\ circuit_breaker'.state # "OPEN" \/ circuit_breaker.state = "OPEN"
       /\ circuit_breaker.state = "HALF_OPEN" =>
             \/ circuit_breaker'.success_count = circuit_breaker.success_count + 1
             \/ circuit_breaker'.state = "CLOSED"
       /\ stats'.failed_requests = stats.failed_requests

(* the response is stored under the key of the request of the worker w *)
Stores(w, result) ==
    /\ DictHas(cache', workers[w].cache_key)
    /\ DictGet(cache', workers[w].cache_key) = result
    /\ DictGet(cache_times', workers[w].cache_key) = now
    /\ workers[w].cache_key = get_cache_key(ItemOf(w))

(* C28, as stated: an attempt whose transfer returns status 200 stores the
   body in the cache under the key of the request and records exactly one
   success, and no failure, to the rate limiter, to the endpoint selected and
   to the breaker. *)
C28_Status200Succeeds ==
    [][\A w \in Workers :
          /\ Responds(w, "200") => Stores(w, last_call'.body)
          /\ Moves(w, "metrics", "callback") /\ workers[w].status = "200"
             => RecordsSuccess(w)]_vars

(* C28, amended: the same for an attempt whose transfer returns status 200
   with a body that parses as JSON. *)
C28_ParsedStatus200Succeeds ==
    [][\A w \in Workers :
          /\ Responds(w, "200") /\ ParsesAsJson(last_call'.body)
             => /\ Stores(w, last_call'.body)
                /\ workers'[w].result = last_call'.body
                /\ workers'[w].pc = "metrics"
          /\ /\ Moves(w, "metrics", "callback")
             /\ workers[w].status = "200"
             /\ workers[w].result # NoResult
             => RecordsSuccess(w)]_vars

(* a 200 after a failure: the body is in the cache, the breaker's failure
   count is back to 0, and the metrics have been recorded *)
C28_Witness ==
    \E w \in Workers :
       /\ last_call.op = "metrics"
       /\ last_call.worker = w
       /\ workers[w].pc = "callback"
       /\ workers[w].status = "200"
       /\ workers[w].success
       /\ DictHas(cache, workers[w].cache_key)
       /\ DictGet(cache, workers[w].cache_key) = workers[w].result
       /\ stats.failed_requests >= 1
       /\ circuit_breaker.failure_count = 0
       /\ rate_limiter.success_count = 1

----------------------------------------------------------------------------
(* the statuses of a failed transfer: a status other than 200 and 429, a
   timeout, a transport error *)
FailureStatuses == Outcomes \ {"200", "429"}

(* the "Record metrics" block of the worker w records one failure, and no
   success, to the rate limiter, to the endpoint selected and to the breaker *)
RecordsFailure(w) ==
    LET e == workers[w].endpoint
    IN /\ rate_limiter'.error_count = rate_limiter.error_count + 1
       /\ rate_limiter'.success_count = rate_limiter.success_count
       /\ endpoints'[e].error_count = endpoints[e].error_count + 1
       /\ endpoints'[e].success_count = endpoints[e].success_count
       /\ endpoints'[e].health_score < endpoints[e].health_score
       /\ \A j \in 1..Len(endpoints) : j # e => endpoints'[j] = endpoints[j]
       /\ circuit_breaker'.failure_count = circuit_breaker.failure_count + 1
       /\ circuit_breaker'.last_failure_time = now
       /\ circuit_breaker'.success_count = circuit_breaker.success_count
       /\ (/\ circuit_breaker.state = "CLOSED"
           /\ circuit_breaker.failure_count + 1 >= circuit_breaker.failure_threshold)
             => circuit_breaker'.state = "OPEN"
       /\ stats'.failed_requests = stats.failed_requests + 1
       /\ stats'.successful_requests = stats.successful_requests

(* C29: an attempt whose transfer ends with a status other than 200 and 429,
   with a timeout or with a transport error records exactly one failure to
   the rate limiter, to the endpoint selected and to the breaker, stores
   nothing in the cache, returns None, and does not put the item back into
   the queue: from the end of the transfer to the end of the attempt the
   worker leaves the cache, the queue and the item's retry_count alone. *)
C29_FailureRecordedOnce ==
    [][\A w \in Workers :
          /\ (\E s \in FailureStatuses : Responds(w, s))
             => /\ workers'[w].pc = "metrics"
                /\ workers'[w].result = NoResult
                /\ ~workers'[w].success
                /\ UNCHANGED <<cache, cache_times, request_queue, requests, Accounting>>
          /\ Moves(w, "metrics", "callback") /\ workers[w].status \in FailureStatuses
             => /\ RecordsFailure(w)
                /\ workers'[w].result = NoResult
                /\ UNCHANGED <<cache, cache_times, request_queue, requests>>
          /\ /\ workers[w].pc \in {"callback", "in_callback"}
             /\ workers[w].status \in FailureStatuses
             /\ workers'[w] # workers[w]
             => /\ UNCHANGED <<cache, cache_times, request_queue, requests, Accounting>>
                /\ last_call'.op = "callback" => last_call'.result = NoResult]_vars

(* the attempt of a request with a callback timed out: one failure is on
   record everywhere, the cache is empty, the queue is empty, and the callback
   has been called with None *)
C29_Witness ==
    \E w \in Workers :
       /\ last_call.op = "callback"
       /\ last_call.worker = w
       /\ last_call.result = NoResult
       /\ workers[w].status = "timeout"
       /\ stats.failed_requests = 1
       /\ stats.total_requests = 1
       /\ rate_limiter.error_count = 1
       /\ circuit_breaker.failure_count = 1
       /\ circuit_breaker.last_failure_time # NoTime
       /\ cache = <<>>
       /\ request_queue.total_size = 0
       /\ requests[last_call.request.id].retry_count = 0

----------------------------------------------------------------------------
(* C30: the breaker has no terminal state: from every reachable state of the
   breaker, CLOSED, OPEN or HALF_OPEN with whatever counters, some sequence of
   admission checks, recorded outcomes and elapsed time leads to OPEN, and
   some sequence leads to CLOSED. *)

(* the breaker and the clock after one more call, or one more unit of time *)
BreakerSteps(s) ==
    {[cb |-> cb_can_make_request(s.cb, s.t), t |-> s.t],
     [cb |-> record_success(s.cb), t |-> s.t],
     [cb |-> record_failure(s.cb, s.t), t |-> s.t],
     [cb |-> s.cb, t |-> s.t + 1]}

(* what sequences of at most n calls and units of time lead to: seen is what
   shorter sequences lead to, frontier what the longest of them added *)
RECURSIVE BreakerReachFrom(_, _, _)
BreakerReachFrom(seen, frontier, n) ==
    IF n = 0 \/ frontier = {} THEN seen
    ELSE LET next == UNION {BreakerSteps(s) : s \in frontier} \ seen
         IN BreakerReachFrom(seen \cup next, next, n - 1)

BreakerReach(S, n) == BreakerReachFrom(S, S, n)

(* enough for recovery_timeout + 1 units of time, one admission check and
   success_threshold successes, or for failure_threshold failures *)
ReachDepth == MaxThreshold + MaxRecovery + 2

BreakerFuture == BreakerReach({[cb |-> circuit_breaker, t |-> now]}, ReachDepth)

C30_NoTerminalState ==
    LET states == {s.cb.state : s \in BreakerFuture}
    IN "OPEN" \in states /\ "CLOSED" \in states

(* an OPEN breaker with the longest recovery timeout, on which a failure has
   just been recorded again: CLOSED lies ahead, through HALF_OPEN and two
   successes, and not within fewer steps than that *)
C30_Witness ==
    /\ circuit_breaker.state = "OPEN"
    /\ last_call.op = "record_failure"
    /\ circuit_breaker.failure_count > circuit_breaker.failure_threshold
    /\ circuit_breaker.recovery_timeout = MaxRecovery
    /\ circuit_breaker.success_threshold = MaxThreshold
    /\ circuit_breaker.last_failure_time = now
    /\ \E s \in BreakerFuture : s.cb.state = "CLOSED" /\ s.t > now + MaxRecovery
    /\ \A s \in BreakerReach({[cb |-> circuit_breaker, t |-> now]}, ReachDepth - 1) :
          s.cb.state # "CLOSED"

----------------------------------------------------------------------------
(* where a worker is suspended: waiting on the empty queue, sleeping for the
   rate limiter, with its transfer in flight, sleeping for Retry-After *)
SuspendedPcs == {"polling", "rate_sleep", "transfer", "throttled"}

(* C31: no suspension of a worker holds a lock of a component or blocks the
   other workers: while a worker is suspended and no worker is in the middle
   of a computation, the lock of the queue is free,
   every other worker whose transfer is in flight can receive its response and
   go on, and an item in the queue can be taken by some worker of those that
   are at the head of their loop or waiting for an item. *)
C31_SuspensionBlocksNobody ==
    \A w \in Workers :
       (/\ workers[w].pc \in SuspendedPcs
        /\ \A v \in Workers : workers[v].pc \in SuspendedPcs \cup {"loop", "none", "done"})
       => /\ queue_lock = 0
          /\ \A v \in Workers \ {w} :
                workers[v].pc = "transfer" => ENABLED WorkerStep(v)
          /\ request_queue.total_size > 0
                => \A v \in Workers :
                      workers[v].pc \in {"loop", "polling"}
                      => \E u \in Workers : /\ workers[u].pc \in {"loop", "polling"}
                                            /\ ENABLED WorkerStep(u)

----------------------------------------------------------------------------
(* the ids of the requests of a sequence *)
IdsOf(reqs) == {reqs[i].id : i \in 1..Len(reqs)}

(* the requests waiting in the lanes, from URGENT to LOW *)
QueuedRequests(q) ==
    q.queues[URGENT] \o q.queues[HIGH] \o q.queues[NORMAL] \o q.queues[LOW]

(* C32: every accepted add_request is delivered to at most one get_request,
   however the calls of the consumers interleave: no two takes return the same
   entry, a taken entry is no longer in a lane, and the takes never outnumber
   the accepted submits (whose ids are 1, 2, ... in the order of acceptance). *)
C32_AtMostOneDelivery ==
    /\ [](/\ \A i, j \in 1..Len(taken) : i # j => taken[i].id # taken[j].id
          /\ IdsOf(taken) \cap IdsOf(QueuedRequests(request_queue)) = {}
          /\ Cardinality(IdsOf(QueuedRequests(request_queue)))
                = Len(QueuedRequests(request_queue))
          /\ \A i \in 1..Len(taken) : taken[i] # NoRequest
          /\ Len(taken) <= Cardinality(IdsOf(taken)
                                         \cup IdsOf(QueuedRequests(request_queue))))
    /\ [][last_call'.op = "get_request" /\ last_call'.ret # NoRequest
            => /\ last_call'.ret \in {QueuedRequests(request_queue)[i] :
                                        i \in 1..Len(QueuedRequests(request_queue))}
               /\ Len(QueuedRequests(request_queue')) = Len(QueuedRequests(request_queue)) - 1
               /\ last_call'.ret.id \notin IdsOf(QueuedRequests(request_queue'))]_vars

(* two consumers were waiting and were both notified; one has taken its item
   and the other is still to run, with one item left for it *)
C32_Witness ==
    /\ last_call.op = "get_request"
    /\ last_call.ret # NoRequest
    /\ Len(taken) = 1
    /\ \E c \in Consumers : c # last_call.consumer /\ consumers[c].pc = "woken"
    /\ request_queue.total_size = 1

----------------------------------------------------------------------------
(* the keys of a dict *)
KeysOf(d) == {d[i].key : i \in 1..Len(d)}

(* C33: a _cache_result that brings the number of entries above the cap purges
   the oldest entries by time of storage, CachePurgeCount of them (a tenth of
   the cap), and no other store purges any; after every store the cache holds
   at most the cap, the entry just stored is there with the time of the
   store, no purged entry is newer than one that stays, and cache and
   cache_times have the same keys. *)
C33_PurgeOldest ==
    /\ [](Len(cache) <= CacheMaxItems /\ KeysOf(cache) = KeysOf(cache_times))
    /\ [][last_call'.op = "_cache_result" =>
            LET key == last_call'.key
                stored == DictSet(cache_times, key, now)
                purged == KeysOf(stored) \ KeysOf(cache')
            IN /\ DictHas(cache', key)
               /\ DictGet(cache', key) = last_call'.result
               /\ DictGet(cache_times', key) = now
               /\ KeysOf(cache') \subseteq KeysOf(stored)
               /\ Cardinality(purged) =
                     IF Len(stored) > CacheMaxItems THEN CachePurgeCount ELSE 0
               /\ \A k \in purged : \A r \in KeysOf(cache') :
                     DictGet(stored, k) <= DictGet(stored, r)
               /\ \A r \in KeysOf(cache') :
                     DictGet(cache_times', r) = DictGet(stored, r)]_vars

(* a store above the cap has purged an entry that was not the first one
   inserted: the first one had been stored again later, and stays *)
C33_Witness ==
    /\ last_call.op = "_cache_result"
    /\ last_call.purged = CachePurgeCount
    /\ Len(cache) = CacheMaxItems
    /\ cache[Len(cache)].key = last_call.key
    /\ cache[1].key < cache[Len(cache)].key
    /\ \E k \in 1..MaxKeys : k \notin KeysOf(cache) /\ k > cache[1].key

----------------------------------------------------------------------------
(* C34: in every reachable state of the queue total_size is the sum of the
   lengths of the four lanes and lies between 0 and max_size, however
   add_request and get_request interleave, get_request calls that wait and
   time out included. *)
LanesSize(q) ==
    Len(q.queues[URGENT]) + Len(q.queues[HIGH]) + Len(q.queues[NORMAL]) + Len(q.queues[LOW])

C34_TotalSizeIsLanesSize ==
    /\ request_queue.total_size = LanesSize(request_queue)
    /\ request_queue.total_size >= 0
    /\ request_queue.total_size <= request_queue.max_size

(* a get_request has timed out on the empty queue after items of two lanes had
   been added and taken *)
C34_Witness ==
    /\ last_call.op = "get_request"
    /\ last_call.ret = NoRequest
    /\ Len(taken) >= 2
    /\ \E i, j \in 1..Len(taken) : taken[i].priority # taken[j].priority
    /\ request_queue.total_size = 0

(* a full queue with items in two lanes while a consumer is about to take *)
C34_WitnessFull ==
    /\ request_queue.max_size = MaxQueue
    /\ request_queue.total_size = MaxQueue
    /\ \E p \in Priorities : Len(request_queue.queues[p]) = 1
    /\ Len(taken) >= 1

----------------------------------------------------------------------------
(* C35: in every reachable state of a breaker whose thresholds are at least 1,
   CLOSED implies failure_count < failure_threshold, HALF_OPEN implies
   success_count < success_threshold, and OPEN implies that last_failure_time
   is set. *)
C35_BreakerStateInvariant ==
    (circuit_breaker.failure_threshold >= 1 /\ circuit_breaker.success_threshold >= 1)
    => /\ circuit_breaker.state = "CLOSED" =>
             circuit_breaker.failure_count < circuit_breaker.failure_threshold
       /\ circuit_breaker.state = "HALF_OPEN" =>
             circuit_breaker.success_count < circuit_breaker.success_threshold
       /\ circuit_breaker.state = "OPEN" =>
             circuit_breaker.last_failure_time # NoTime

(* a HALF_OPEN breaker with success threshold 2 has counted one trial success,
   after failures beyond the threshold *)
C35_Witness ==
    /\ circuit_breaker.state = "HALF_OPEN"
    /\ circuit_breaker.success_threshold = 2
    /\ circuit_breaker.success_count = 1
    /\ last_call.op = "record_success"
    /\ circuit_breaker.last_failure_time # NoTime

----------------------------------------------------------------------------
(* C36: a record_failure on an OPEN breaker leaves it OPEN and sets
   last_failure_time to now; every record_failure sets it and nothing else
   changes it, so that the recovery timeout which the admission check of an
   OPEN breaker measures runs from the most recent recorded failure, not from
   the opening; a record_success on an OPEN breaker leaves it OPEN. *)
C36_FailureWhileOpen ==
    [][/\ (last_call'.op = "record_failure" /\ circuit_breaker.state = "OPEN")
            => /\ circuit_breaker'.state = "OPEN"
               /\ circuit_breaker'.last_failure_time = now
               /\ circuit_breaker'.failure_count = circuit_breaker.failure_count + 1
       /\ last_call'.op = "record_failure" => circuit_breaker'.last_failure_time = now
       /\ circuit_breaker'.last_failure_time # circuit_breaker.last_failure_time
            => last_call'.op = "record_failure"
       /\ (last_call'.op = "record_success" /\ circuit_breaker.state = "OPEN")
            => /\ circuit_breaker'.state = "OPEN"
               /\ circuit_breaker'.last_failure_time = circuit_breaker.last_failure_time
       /\ (last_call'.op = "can_make_request" /\ circuit_breaker.state = "OPEN")
            => last_call'.ret =
                  (now - circuit_breaker.last_failure_time
                      > circuit_breaker.recovery_timeout)]_vars

(* a breaker with failure threshold 1 and recovery timeout 2 was opened by
   its first failure and got a second one while OPEN, at time 3; the
   admission check at time 4 is refused, the timeout being counted from the
   second failure *)
C36_Witness ==
    /\ last_call.op = "can_make_request"
    /\ last_call.ret = FALSE
    /\ circuit_breaker.state = "OPEN"
    /\ circuit_breaker.failure_threshold = 1
    /\ circuit_breaker.recovery_timeout = 2
    /\ circuit_breaker.failure_count = 2
    /\ circuit_breaker.last_failure_time = 3
    /\ now = 4
    /\ consec_failures = 2

----------------------------------------------------------------------------
(* no attempt is between its transfer and the end of its metrics block *)
NoneRecording ==
    \A w \in Workers : workers[w].pc \notin {"transfer", "throttled", "metrics"}

(* the attempts counted by the stats, by the rate limiter, by the endpoints *)
CountedByStats == stats.total_requests
CountedByRateLimiter == rate_limiter.success_count + rate_limiter.error_count
CountedByEndpoints ==
    SeqSum([i \in 1..Len(endpoints) |->
               endpoints[i].success_count + endpoints[i].error_count])

(* C37: whenever no attempt is between its transfer and the end of its
   metrics block, total_requests = successful_requests + failed_requests =
   the rate limiter's success_count + error_count = the sum of the endpoints'
   success_count + error_count; the metrics block of an attempt that reached
   an endpoint adds exactly one to each count, and an attempt answered from
   the cache or rejected by the breaker adds nothing to any. *)
C37_AccountingConsistent ==
    /\ [](NoneRecording =>
             /\ stats.total_requests = stats.successful_requests + stats.failed_requests
             /\ CountedByRateLimiter = stats.total_requests
             /\ CountedByEndpoints = stats.total_requests)
    /\ [][\A w \in Workers :
             /\ Moves(w, "metrics", "callback")
                => /\ CountedByStats' = CountedByStats + 1
                   /\ CountedByRateLimiter' = CountedByRateLimiter + 1
                   /\ CountedByEndpoints' = CountedByEndpoints + 1
                   /\ workers[w].endpoint # NoEndpoint
             /\ (workers'[w] # workers[w] /\ ~Moves(w, "metrics", "callback"))
                => /\ CountedByStats' = CountedByStats
                   /\ CountedByRateLimiter' = CountedByRateLimiter
                   /\ CountedByEndpoints' = CountedByEndpoints
                   /\ stats'.failed_requests = stats.failed_requests
             /\ (Moves(w, "process", "callback") \/ Moves(w, "admit", "callback"))
                => UNCHANGED Accounting]_vars

(* a 429, its retry answered with 200, and a second item answered from the
   cache: two attempts are counted, one success and one failure *)
C37_Witness ==
    /\ NoneRecording
    /\ stats.total_requests = 2
    /\ stats.successful_requests = 1
    /\ stats.failed_requests = 1
    /\ stats.cached_responses = 1
    /\ CountedByRateLimiter = 2
    /\ CountedByEndpoints = 2

----------------------------------------------------------------------------
(* where an attempt is before its callback has been called *)
BeforeCallbackPcs ==
    {"process", "admit", "rate_sleep", "select", "transfer", "throttled",
     "metrics", "callback"}

(* the worker w is in an attempt of the item id whose callback is still to be
   called *)
Attempting(w, id) ==
    workers[w].request.id = id /\ workers[w].pc \in BeforeCallbackPcs

(* C38: an item put back after a 429 is not taken by any worker before the
   throttled attempt has recorded its outcome to the rate limiter, the
   endpoint and the breaker and has called its callback: when an item is
   taken no attempt of it is still before the call of its callback, two
   attempts of one item never are at once, and so the callbacks of an item
   are called in the order of its attempts. *)
C38_RetryAfterThrottledAttempt ==
    /\ [](\A w, v \in Workers : \A id \in 1..Len(requests) :
             (w # v /\ Attempting(w, id)) => ~Attempting(v, id))
    /\ [][last_call'.op = "take" =>
             \A w \in Workers : ~Attempting(w, last_call'.request.id)]_vars

(* the retry of an item that got a 429 has just been taken by the other
   worker: the failure of the throttled attempt is on record, and its
   callback, a coroutine, has been called and has not returned yet *)
C38_Witness ==
    /\ last_call.op = "take"
    /\ requests[last_call.request.id].retry_count = 1
    /\ Attempts(last_call.request.id) = 2
    /\ stats.failed_requests = 1
    /\ rate_limiter.error_count = 1
    /\ circuit_breaker.failure_count = 1
    /\ \E w \in Workers :
          /\ w # last_call.worker
          /\ workers[w].request.id = last_call.request.id
          /\ workers[w].pc = "in_callback"
          /\ workers[w].callbacks = 1

(* what the workers change: their own position, the takes, the outcomes on the
   rate limiter, the breaker and the endpoints, the counts, the transfers, the
   callbacks (counted in workers) and the cache *)
WorkerEffects ==
    <<workers, taken, rate_limiter, circuit_breaker, endpoints, stats,
      last_send, cache, cache_times>>

(* C39: once stop() has completed every worker has returned, and from then on
   there is no take, no transfer, no recording of an outcome and no callback;
   the items in the queue at that point, those put back by a 429 during the
   drain included, stay in the queue. *)
C39_NothingAfterStop ==
    /\ [](manager = "stopped" => \A w \in Workers : workers[w].pc = "done")
    /\ [][manager = "stopped"
          => /\ UNCHANGED WorkerEffects
             /\ \A i \in 1..Len(QueuedRequests(request_queue)) :
                   \E j \in 1..Len(QueuedRequests(request_queue')) :
                      QueuedRequests(request_queue')[j]
                         = QueuedRequests(request_queue)[i]]_vars

(* stop() has completed and the queue holds an item that a 429 put back while
   the workers were draining; nobody has taken it a second time *)
C39_Witness ==
    /\ manager = "stopped"
    /\ \E i \in 1..Len(QueuedRequests(request_queue)) :
          LET id == QueuedRequests(request_queue)[i].id
          IN /\ requests[id].retry_count = 1
             /\ Attempts(id) = 1
             /\ stats.failed_requests = 1

(* an item is submitted to the stopped manager and stays in the queue *)
C39_WitnessSubmitAfterStop ==
    /\ manager = "stopped"
    /\ last_call.op = "submit"
    /\ last_call.ret
    /\ request_queue.total_size = 2

----------------------------------------------------------------------------
(* APIManager while it runs, built with a breaker that opens at the first
   failure and a queue of ManagerQueueSize places: the event loop runs every
   task that can run, transfers and sleeps end and the clock advances; the
   caller may or may not call stop() *)
InitRunning ==
    /\ InitManager
    /\ circuit_breaker.failure_threshold = 1
    /\ request_queue.max_size = ManagerQueueSize

SpecManagerRunning ==
    /\ InitRunning
    /\ [][NextManager]_vars
    /\ \A w \in Workers : WF_vars(WorkerStep(w))
    /\ WF_vars(Tick(ManagerTime))

(* the item id was submitted and waits in a lane of the queue *)
InQueue(id) == id \in 1..Len(requests) /\ Queued(request_queue, id)

(* the worker w is past the take of the item id: it works on the attempt *)
Attempted(w, id) ==
    /\ workers[w].request.id = id
    /\ workers[w].pc \notin {"none", "loop", "polling", "done"}

(* C40: while the manager runs, an item waiting in the queue is eventually
   taken by a worker, which starts its attempt, once no item of a higher
   priority is submitted any more (the callers submit finitely many items);
   this holds for the URGENT items in particular. *)
C40_AcceptedIsAttempted ==
    \A id \in 1..MaxRequests :
       (manager = "running" /\ InQueue(id))
          ~> (manager # "running"
              \/ (~InQueue(id) /\ \E w \in Workers : Attempted(w, id)))

(* an item is taken after the URGENT item that was submitted later and taken
   first *)
C40_Witness ==
    /\ manager = "running"
    /\ last_call.op = "take"
    /\ last_call.request.id = 1
    /\ Len(taken) = 2
    /\ taken[1].id = 2
    /\ taken[1].priority = URGENT
    /\ last_call.request.priority < URGENT

====
